---- MODULE Spec2Model ----
(***************************************************************************)
(* pathvein: structural pattern matching over directory trees.             *)
(*                                                                         *)
(* The model covers the pattern tree and its builder (requirements.py),    *)
(* the recursive matcher, the directory walker with its cached directory   *)
(* listing (_path_utils.py) and scan (lib.py), over a small filesystem     *)
(* that other processes may change between library calls.                  *)
(*                                                                         *)
(* Names are sequences of one-character strings, a path is the sequence of *)
(* its components, a glob is a name that may contain "*" and "?".          *)
(* Name patterns are single components (no path separator).                *)
(***************************************************************************)
EXTENDS Integers, Sequences, FiniteSets, TLC

\* ------------------------------------------------------------------ bounds
MaxDepth == 2
MaxDirs == 2
MaxFiles == 1
MaxChanges == 1
MaxObjs == 4
MaxList == 2
MaxOps == 5

\* ------------------------------------------------------- names and paths
DirNames == {<<"a">>, <<"b">>}
FileNames == {<<"a", "a">>, <<"a", "b">>}
\* directory listings are reported in this order
AllNames == << <<"a">>, <<"b">>, <<"a", "a">>, <<"a", "b">> >>

Paths == UNION {[1..n -> DirNames] : n \in 1..MaxDepth}

Front(s) == SubSeq(s, 1, Len(s) - 1)
Last(s) == s[Len(s)]
Range(s) == {s[i] : i \in 1..Len(s)}
IsPrefix(p, q) == Len(p) <= Len(q) /\ SubSeq(q, 1, Len(p)) = p

\* directory_name: str | None
None == <<"None">>

VARIABLES
    dirs,        \* the directories that exist
    files,       \* <<directory, name>> -> content, for the files that exist
    unreadable,  \* directories whose enumeration fails with PermissionError
    nchanges,    \* number of filesystem changes so far
    cache,       \* lru_cache of iterdir: <<kind, path>> -> cached triple
    call,        \* the last library call since the last filesystem change
    heap,        \* the pattern objects: reference -> fields
    held,        \* the references the caller got from the constructor
    nops         \* number of constructor, builder and to_json calls so far

vars == <<dirs, files, unreadable, nchanges, cache, call, heap, held, nops>>
fsVars == <<dirs, files, unreadable, nchanges>>
objVars == <<heap, held, nops>>

fsNow == [dirs |-> dirs, files |-> files, unreadable |-> unreadable]

\* ------------------------------------------------------------ Glob Matcher
RECURSIVE fnmatch(_, _)
fnmatch(name, pattern) ==
    IF pattern = <<>> THEN name = <<>>
    ELSE IF Head(pattern) = "*"
         THEN fnmatch(name, Tail(pattern))
              \/ (name # <<>> /\ fnmatch(Tail(name), pattern))
    ELSE IF name = <<>> THEN FALSE
    ELSE IF Head(pattern) = "?" THEN fnmatch(Tail(name), Tail(pattern))
    ELSE Head(name) = Head(pattern) /\ fnmatch(Tail(name), Tail(pattern))

\* PurePath.match with a single-component pattern: the last component
PathMatch(path, pattern) == fnmatch(Last(path), pattern)

\* --------------------------------------------------------- the filesystem
Listing(S) == SelectSeq(AllNames, LAMBDA n : n \in S)
SubdirNames(fs, path) == {n \in DirNames : Append(path, n) \in fs.dirs}
FileNamesIn(fs, path) == {n \in FileNames : <<path, n>> \in DOMAIN fs.files}

\* one enumeration of a directory: the error it raises, or its children
Enumerate(fs, path) ==
    IF path \notin fs.dirs THEN [err |-> "FileNotFoundError"]
    ELSE IF path \in fs.unreadable THEN [err |-> "PermissionError"]
    ELSE [err |-> "none",
          triple |-> [path |-> path,
                      dirnames |-> Listing(SubdirNames(fs, path)),
                      filenames |-> Listing(FileNamesIn(fs, path))]]

\* next(path.walk()): Path.walk ignores enumeration errors and then yields
\* nothing, so next() raises StopIteration
NextWalk(fs, path) ==
    LET e == Enumerate(fs, path)
    IN IF e.err = "none" THEN e ELSE [err |-> "StopIteration"]

\* -------------------------------------------------------- Structure Pattern
\* a pattern as a value: the five fields, sub-patterns nested
FileStructureRequirement ==
    [directory_name |-> None, files |-> <<>>, directories |-> <<>>,
     optional_files |-> <<>>, optional_directories |-> <<>>]

WithName(self, name) == [self EXCEPT !.directory_name = name]

WithFile(self, file, required) ==
    IF required THEN [self EXCEPT !.files = Append(@, file)]
    ELSE [self EXCEPT !.optional_files = Append(@, file)]

WithDirectory(self, directory, required) ==
    IF required THEN [self EXCEPT !.directories = Append(@, directory)]
    ELSE [self EXCEPT !.optional_directories = Append(@, directory)]

\* ------------------------------------------------ pattern objects (builder)
\* An object holds the five fields; directories and optional_directories
\* hold references to other objects.
EmptyHeap == [i \in {} |-> 0]
NextId(h) == Cardinality(DOMAIN h) + 1
Extend(h, id, obj) ==
    [i \in DOMAIN h \cup {id} |-> IF i = id THEN obj ELSE h[i]]

Children(h, id) ==
    Range(h[id].directories) \cup Range(h[id].optional_directories)

RECURSIVE ReachFrom(_, _)
ReachFrom(h, S) ==
    LET N == S \cup UNION {Children(h, i) : i \in S}
    IN IF N = S THEN S ELSE ReachFrom(h, N)
\* the object and everything below it
Reach(h, id) == ReachFrom(h, {id})

\* copy.deepcopy of a pattern object: a fresh object for every node below
RECURSIVE deepcopy(_, _)
RECURSIVE CopyAll(_, _, _, _)
deepcopy(h, id) ==
    LET new == NextId(h)
        r == CopyAll(Extend(h, new, h[id]), h[id].directories, 1, <<>>)
        o == CopyAll(r.heap, h[id].optional_directories, 1, <<>>)
    IN [heap |-> [o.heap EXCEPT ![new].directories = r.ids,
                                ![new].optional_directories = o.ids],
        root |-> new]

CopyAll(h, ids, i, acc) ==
    IF i > Len(ids) THEN [heap |-> h, ids |-> acc]
    ELSE LET c == deepcopy(h, ids[i])
         IN CopyAll(c.heap, ids, i + 1, Append(acc, c.root))

set_name(h, self, name) == [h EXCEPT ![self].directory_name = name]

add_file(h, self, file, required) ==
    IF required THEN [h EXCEPT ![self].files = Append(@, file)]
    ELSE [h EXCEPT ![self].optional_files = Append(@, file)]

RECURSIVE add_files(_, _, _, _)
add_files(h, self, fileSeq, required) ==
    IF fileSeq = <<>> THEN h
    ELSE add_files(add_file(h, self, Head(fileSeq), required), self,
                   Tail(fileSeq), required)

\* the reference itself is stored, without deepcopy
add_directory_shared(h, self, directory, required) ==
    IF required THEN [h EXCEPT ![self].directories = Append(@, directory)]
    ELSE [h EXCEPT ![self].optional_directories = Append(@, directory)]

add_directory(h, self, directory, required) ==
    LET c == deepcopy(h, directory)
    IN IF required
       THEN [c.heap EXCEPT ![self].directories = Append(@, c.root)]
       ELSE [c.heap EXCEPT ![self].optional_directories = Append(@, c.root)]

RECURSIVE add_directories(_, _, _, _)
add_directories(h, self, directorySeq, required) ==
    IF directorySeq = <<>> THEN h
    ELSE add_directories(add_directory(h, self, Head(directorySeq), required),
                         self, Tail(directorySeq), required)

\* the pattern value an object stands for, unfolded at most fuel levels
Cyclic == [cyclic |-> TRUE]
RECURSIVE Unfold(_, _, _)
Unfold(h, id, fuel) ==
    IF fuel = 0 THEN Cyclic
    ELSE [directory_name |-> h[id].directory_name,
          files |-> h[id].files,
          directories |-> [i \in DOMAIN h[id].directories |->
                              Unfold(h, h[id].directories[i], fuel - 1)],
          optional_files |-> h[id].optional_files,
          optional_directories |->
              [i \in DOMAIN h[id].optional_directories |->
                  Unfold(h, h[id].optional_directories[i], fuel - 1)]]
Value(h, id) == Unfold(h, id, Cardinality(DOMAIN h))

\* ------------------------------------------------------------ serialization
\* json.dumps / json.loads of the dictionary: None <-> null, the rest as is;
\* a text is kept apart from the dictionary it encodes
JNull == <<"null">>
dumps(dictionary) ==
    [json |-> [dictionary EXCEPT
                  !.directory_name = IF @ = None THEN JNull ELSE @]]
loads(text) ==
    [text.json EXCEPT !.directory_name = IF @ = JNull THEN None ELSE @]

\* optional_directories serialized from self.directories
RECURSIVE to_json_swapped(_, _)
to_json_swapped(h, self) ==
    LET texts == [i \in DOMAIN h[self].directories |->
                     to_json_swapped(h, h[self].directories[i]).text]
    IN [text |-> dumps([h[self] EXCEPT !.directories = texts,
                                       !.optional_directories = texts]),
        heap |-> h]

\* the assignments go to a deep copy of self.__dict__, so no object changes
RECURSIVE to_json(_, _)
to_json(h, self) ==
    LET texts == [i \in DOMAIN h[self].directories |->
                     to_json(h, h[self].directories[i]).text]
        otexts == [i \in DOMAIN h[self].optional_directories |->
                      to_json(h, h[self].optional_directories[i]).text]
    IN [text |-> dumps([h[self] EXCEPT !.directories = texts,
                                       !.optional_directories = otexts]),
        heap |-> h]

\* from_json builds the pattern with the builder; every sub-pattern is
\* parsed into an object of its own and then added (hence copied)
RECURSIVE from_json(_, _)
RECURSIVE FromJsonEach(_, _, _, _, _)
from_json(h, spec_str) ==
    LET spec == loads(spec_str)
        self == NextId(h)
        h1 == set_name(Extend(h, self, FileStructureRequirement), self,
                       spec.directory_name)
        h2 == add_files(h1, self, spec.files, TRUE)
        h3 == add_files(h2, self, spec.optional_files, FALSE)
        h4 == FromJsonEach(h3, self, spec.directories, 1, TRUE)
        h5 == FromJsonEach(h4, self, spec.optional_directories, 1, FALSE)
    IN [heap |-> h5, root |-> self]

FromJsonEach(h, self, specs, i, required) ==
    IF i > Len(specs) THEN h
    ELSE LET sub == from_json(h, specs[i])
         IN FromJsonEach(add_directory(sub.heap, self, sub.root, required),
                         self, specs, i + 1, required)

\* ------------------------------------------------------ equality and hash
\* A hash value is represented by the term it is computed from: two terms
\* are the same hash value exactly when they are equal.  Strings hash
\* apart; of the integers a declaration can hold, CPython gives
\* hash(-1) = hash(-2) = -2.
IntM1 == <<"int", "-1">>
IntM2 == <<"int", "-2">>
hash(x) == IF x = IntM1 THEN IntM2 ELSE x
HashTuple(t) == [i \in DOMAIN t |-> hash(t[i])]

RECURSIVE PatternHash(_)
PatternKey(self) ==
    <<self.directory_name,
      HashTuple(self.files),
      [i \in DOMAIN self.directories |-> PatternHash(self.directories[i])],
      HashTuple(self.optional_files),
      [i \in DOMAIN self.optional_directories |->
          PatternHash(self.optional_directories[i])]>>
\* __hash__
PatternHash(self) == <<"hash", PatternKey(self)>>
\* __eq__
PatternEq(self, other) == PatternKey(self) = PatternKey(other)

\* ------------------------------------------------------------------ Matcher
\* "T" / "F": the value returned; "E": the call raised
RECURSIVE matches(_, _, _)
RECURSIVE BranchMatched(_, _, _, _, _)
RECURSIVE BranchesLoop(_, _, _, _)

\* all(not branch.matches(next((dirpath / d).walk())) for d in dirnames),
\* from position i: "T" some subdirectory matched (all() is False),
\* "F" none did, "E" an evaluation raised before any match
BranchMatched(branch, fs, dirpath, dirnames, i) ==
    IF i > Len(dirnames) THEN "F"
    ELSE LET w == NextWalk(fs, Append(dirpath, dirnames[i]))
         IN IF w.err # "none" THEN "E"
            ELSE LET m == matches(branch, fs, w.triple)
                 IN IF m = "F"
                    THEN BranchMatched(branch, fs, dirpath, dirnames, i + 1)
                    ELSE m

BranchesLoop(self, fs, walk_args, k) ==
    IF k > Len(self.directories) THEN "T"
    ELSE LET b == BranchMatched(self.directories[k], fs, walk_args.path,
                                walk_args.dirnames, 1)
         IN IF b = "T" THEN BranchesLoop(self, fs, walk_args, k + 1) ELSE b

\* any() in place of all() over the required patterns
RequiredFilesPresentAny(self, filenames) ==
    self.files = <<>>
    \/ \E k \in 1..Len(self.files) :
           \E j \in 1..Len(filenames) : fnmatch(filenames[j], self.files[k])

\* the optional file patterns checked as if they were required
RequiredFilesPresentAll(self, filenames) ==
    \A p \in Range(self.files) \cup Range(self.optional_files) :
        \E j \in 1..Len(filenames) : fnmatch(filenames[j], p)

RequiredFilesPresent(self, filenames) ==
    \A k \in 1..Len(self.files) :
        \E j \in 1..Len(filenames) : fnmatch(filenames[j], self.files[k])

matches(self, fs, walk_args) ==
    IF /\ self.directory_name # None
       /\ self.directory_name # <<>>
       /\ ~PathMatch(walk_args.path, self.directory_name)
    THEN "F"
    ELSE IF ~RequiredFilesPresent(self, walk_args.filenames) THEN "F"
    ELSE BranchesLoop(self, fs, walk_args, 1)

\* ------------------------------------------------------- Directory Walker
NoCache == [k \in {} |-> 0]

\* caching an exhausted listing: the stored triple has lost its filenames
iterdirExhausted(fs, c, kind, path) ==
    IF <<kind, path>> \in DOMAIN c
    THEN [err |-> "none", triple |-> c[<<kind, path>>], cache |-> c]
    ELSE LET e == Enumerate(fs, path)
         IN IF e.err # "none" THEN [err |-> e.err, cache |-> c]
            ELSE [err |-> "none", triple |-> e.triple,
                  cache |-> [k \in DOMAIN c \cup {<<kind, path>>} |->
                                IF k = <<kind, path>>
                                THEN [e.triple EXCEPT !.filenames = <<>>]
                                ELSE c[k]]]

\* @lru_cache iterdir: a hit returns the stored triple, a miss enumerates
\* the directory and stores the triple; an exception stores nothing
iterdir(fs, c, kind, path) ==
    IF <<kind, path>> \in DOMAIN c
    THEN [err |-> "none", triple |-> c[<<kind, path>>], cache |-> c]
    ELSE LET e == Enumerate(fs, path)
         IN IF e.err # "none" THEN [err |-> e.err, cache |-> c]
            ELSE [err |-> "none", triple |-> e.triple,
                  cache |-> [k \in DOMAIN c \cup {<<kind, path>>} |->
                                IF k = <<kind, path>> THEN e.triple ELSE c[k]]]

ChildPaths(path, dirnames) ==
    [i \in 1..Len(dirnames) |-> Append(path, dirnames[i])]

\* the iterdir branch of walk: the visits yielded so far, each with the
\* cache as it is when the triple is yielded, the directories skipped with
\* a "Permission denied" warning, and the error that ends the walk
RECURSIVE WalkStack(_, _, _, _, _, _)
WalkStack(fs, kind, dir_stack, c, visits, skipped) ==
    IF dir_stack = <<>>
    THEN [visits |-> visits, err |-> "none", cache |-> c, skipped |-> skipped]
    ELSE LET path == Last(dir_stack)
             rest == Front(dir_stack)
             r == iterdir(fs, c, kind, path)
         IN IF r.err = "PermissionError"
            THEN WalkStack(fs, kind, rest, c, visits, skipped \cup {path})
            ELSE IF r.err # "none"
            THEN [visits |-> visits, err |-> r.err, cache |-> c,
                  skipped |-> skipped]
            ELSE WalkStack(fs, kind,
                           rest \o ChildPaths(r.triple.path, r.triple.dirnames),
                           r.cache,
                           Append(visits, [triple |-> r.triple,
                                           cache |-> r.cache]),
                           skipped)

\* os.walk, top down, onerror=None: a directory whose enumeration fails is
\* not yielded and not descended into
RECURSIVE OsWalk(_, _, _)
RECURSIVE OsWalkEach(_, _, _, _, _)
OsWalk(fs, c, top) ==
    LET e == Enumerate(fs, top)
    IN IF e.err # "none" THEN [visits |-> <<>>, skipped |-> {top}]
       ELSE LET below == OsWalkEach(fs, c, top, e.triple.dirnames, 1)
            IN [visits |-> <<[triple |-> e.triple, cache |-> c]>> \o below.visits,
                skipped |-> below.skipped]

OsWalkEach(fs, c, top, dirnames, i) ==
    IF i > Len(dirnames) THEN [visits |-> <<>>, skipped |-> {}]
    ELSE LET first == OsWalk(fs, c, Append(top, dirnames[i]))
             others == OsWalkEach(fs, c, top, dirnames, i + 1)
         IN [visits |-> first.visits \o others.visits,
             skipped |-> first.skipped \cup others.skipped]

walk(fs, c, kind, source) ==
    IF kind = "Path"
    THEN LET w == OsWalk(fs, c, source)
         IN [visits |-> w.visits, err |-> "none", cache |-> c,
             skipped |-> w.skipped]
    ELSE WalkStack(fs, kind, <<source>>, c, <<>>, {})

\* --------------------------------------------------------------------- scan
ScanResult(source, pattern) == [source |-> source, pattern |-> pattern]

\* a list in place of the set: append without the membership test
SetAddAlways(s, x) == Append(s, x)

\* matches.add(x) on a Python set
SetAdd(s, x) ==
    IF \E y \in Range(s) :
          y.source = x.source /\ PatternEq(y.pattern, x.pattern)
    THEN s ELSE Append(s, x)

\* the inner loop of scan over pattern_list at one visited directory
RECURSIVE ScanPatternsAt(_, _, _, _, _)
ScanPatternsAt(fs, triple, pattern_list, k, acc) ==
    IF k > Len(pattern_list) THEN [err |-> "none", matches |-> acc]
    ELSE LET m == matches(pattern_list[k], fs, triple)
         IN IF m = "E" THEN [err |-> "RuntimeError", matches |-> acc]
            ELSE ScanPatternsAt(fs, triple, pattern_list, k + 1,
                     IF m = "T"
                     THEN SetAdd(acc, ScanResult(triple.path, pattern_list[k]))
                     ELSE acc)

\* the outer loop of scan over the triples the walker yields
RECURSIVE ScanVisits(_, _, _, _, _, _)
ScanVisits(fs, w, pattern_list, i, acc, c) ==
    IF i > Len(w.visits)
    THEN [err |-> w.err, matches |-> acc, cache |-> w.cache,
          skipped |-> w.skipped]
    ELSE LET r == ScanPatternsAt(fs, w.visits[i].triple, pattern_list, 1, acc)
         IN IF r.err # "none"
            THEN [err |-> r.err, matches |-> r.matches,
                  cache |-> w.visits[i].cache, skipped |-> w.skipped]
            ELSE ScanVisits(fs, w, pattern_list, i + 1, r.matches, c)

scan(fs, c, kind, source, pattern_list) ==
    ScanVisits(fs, walk(fs, c, kind, source), pattern_list, 1, <<>>, c)

\* ------------------------------------------------------ inputs of the calls
\* the path objects of the calls, by the branch of walk and iterdir they take:
\* "Path" passes the test type(source) is Path (os.walk, os.scandir), "UPath"
\* is every other path object, pathlib's own PosixPath and WindowsPath
\* included (cached iterdir); the two never share a cache key
Kinds == {"Path", "UPath"}

PAny == FileStructureRequirement
PName == WithName(FileStructureRequirement, <<"a">>)
PFile == WithFile(FileStructureRequirement, <<"a", "*">>, TRUE)
PTree == WithDirectory(FileStructureRequirement, PFile, TRUE)

ScanPatterns == {PAny, PName, PFile, PTree}

PEmptyName == WithName(FileStructureRequirement, <<>>)
PTwo == WithFile(PFile, <<"?", "b">>, TRUE)
PNamedTree ==
    WithName(WithDirectory(FileStructureRequirement,
                           WithName(PFile, <<"b">>), TRUE), <<"?">>)
PTwoTrees == WithDirectory(PTree, PName, TRUE)
POptFile == WithFile(PFile, <<"?", "b">>, FALSE)
POptDir == WithDirectory(PName, PFile, FALSE)
POptOnly ==
    WithDirectory(WithFile(FileStructureRequirement, <<"a", "b">>, FALSE),
                  PTwo, FALSE)
POptBelow == WithDirectory(FileStructureRequirement, POptFile, TRUE)

MatchPatterns ==
    {PAny, PName, PEmptyName, PFile, PTwo, PTree, PNamedTree, PTwoTrees,
     POptFile, POptDir, POptOnly, POptBelow}
PatternLists ==
    {<<p>> : p \in ScanPatterns}
    \cup {<<PFile, PFile>>, <<PName, PFile>>, <<PTree, PAny>>}

\* --------------------------------------------------------------- the state
NoCall == [op |-> "none"]

PrefixClosed(D) == \A p \in D : Len(p) > 1 => Front(p) \in D

InitFs ==
    /\ dirs \in {D \in SUBSET Paths : Cardinality(D) <= MaxDirs /\ PrefixClosed(D)}
    /\ \E F \in SUBSET (dirs \X FileNames) :
          /\ Cardinality(F) <= MaxFiles
          /\ files = [f \in F |-> 0]
    /\ unreadable \in {U \in SUBSET dirs : Cardinality(U) <= 1}

Init ==
    /\ InitFs
    /\ nchanges = 0
    /\ cache = NoCache
    /\ call = NoCall
    /\ heap = EmptyHeap
    /\ held = {}
    /\ nops = 0

\* ------------------------------------------- changes made to the filesystem
Changed ==
    /\ nchanges < MaxChanges
    /\ nchanges' = nchanges + 1
    /\ call' = NoCall
    /\ UNCHANGED <<cache, objVars>>

Mkdir ==
    \E p \in Paths \ dirs :
        /\ Len(p) > 1 => Front(p) \in dirs
        /\ Cardinality(dirs) < MaxDirs
        /\ dirs' = dirs \cup {p}
        /\ UNCHANGED <<files, unreadable>>
        /\ Changed

Rmtree ==
    \E p \in dirs :
        /\ dirs' = {d \in dirs : ~IsPrefix(p, d)}
        /\ files' = [f \in {g \in DOMAIN files : ~IsPrefix(p, g[1])} |-> files[f]]
        /\ unreadable' = unreadable \cap dirs'
        /\ Changed

Touch ==
    \E p \in dirs, n \in FileNames :
        /\ <<p, n>> \notin DOMAIN files
        /\ Cardinality(DOMAIN files) < MaxFiles
        /\ files' = [f \in DOMAIN files \cup {<<p, n>>} |->
                        IF f = <<p, n>> THEN 0 ELSE files[f]]
        /\ UNCHANGED <<dirs, unreadable>>
        /\ Changed

Unlink ==
    \E f \in DOMAIN files :
        /\ files' = [g \in DOMAIN files \ {f} |-> files[g]]
        /\ UNCHANGED <<dirs, unreadable>>
        /\ Changed

Chmod ==
    \E p \in dirs :
        /\ unreadable' = IF p \in unreadable THEN unreadable \ {p}
                         ELSE {p}
        /\ UNCHANGED <<dirs, files>>
        /\ Changed

\* ------------------------------------------------------------ library calls
Scan ==
    \E kind \in Kinds, source \in dirs, pattern_list \in PatternLists :
        LET r == scan(fsNow, cache, kind, source, pattern_list)
        IN /\ cache' = r.cache
           /\ call' = [op |-> "scan", kind |-> kind, source |-> source,
                       patterns |-> pattern_list, err |-> r.err,
                       result |-> r.matches, skipped |-> r.skipped]
           /\ UNCHANGED <<fsVars, objVars>>

\* pattern.matches(triple) on the triple of a directory just enumerated
Match ==
    \E pattern \in MatchPatterns, path \in dirs :
        LET e == Enumerate(fsNow, path)
        IN /\ e.err = "none"
           /\ call' = [op |-> "matches", pattern |-> pattern,
                       triple |-> e.triple,
                       result |-> matches(pattern, fsNow, e.triple)]
           /\ UNCHANGED <<fsVars, cache, objVars>>

Next == Mkdir \/ Rmtree \/ Touch \/ Unlink \/ Chmod \/ Scan

Spec == Init /\ [][Next]_vars

\* ---------------------------------------------------- building patterns
BuilderNames == {None, <<"a">>}
BuilderGlobs == {<<"a", "*">>}

InitPattern ==
    /\ dirs = {}
    /\ files = [f \in {} |-> 0]
    /\ unreadable = {}
    /\ nchanges = 0
    /\ cache = NoCache
    /\ call = NoCall
    /\ heap = EmptyHeap
    /\ held = {}
    /\ nops = 0

Counted == nops < MaxOps /\ nops' = nops + 1

\* FileStructureRequirement()
New ==
    /\ Counted
    /\ Cardinality(DOMAIN heap) < MaxObjs
    /\ heap' = Extend(heap, NextId(heap), FileStructureRequirement)
    /\ held' = held \cup {NextId(heap)}
    /\ call' = [op |-> "new", self |-> NextId(heap)]
    /\ UNCHANGED <<fsVars, cache>>

SetName ==
    \E self \in held, name \in BuilderNames :
        /\ heap' = set_name(heap, self, name)
        /\ call' = [op |-> "set_name", self |-> self]
        /\ Counted
        /\ UNCHANGED <<fsVars, cache, held>>

FileList(h, self, required) ==
    IF required THEN h[self].files ELSE h[self].optional_files
DirectoryList(h, self, required) ==
    IF required THEN h[self].directories ELSE h[self].optional_directories

AddFile ==
    \E self \in held, file \in BuilderGlobs, required \in BOOLEAN :
        /\ Len(FileList(heap, self, required)) < MaxList
        /\ heap' = add_file(heap, self, file, required)
        /\ call' = [op |-> "add_file", self |-> self]
        /\ Counted
        /\ UNCHANGED <<fsVars, cache, held>>

AddFiles ==
    \E self \in held, f1, f2 \in BuilderGlobs, required \in BOOLEAN :
        /\ Len(FileList(heap, self, required)) + 2 <= MaxList
        /\ heap' = add_files(heap, self, <<f1, f2>>, required)
        /\ call' = [op |-> "add_files", self |-> self]
        /\ Counted
        /\ UNCHANGED <<fsVars, cache, held>>

AddDirectory ==
    \E self \in held, directory \in held, required \in BOOLEAN :
        /\ Len(DirectoryList(heap, self, required)) < MaxList
        /\ Cardinality(DOMAIN heap) + Cardinality(Reach(heap, directory))
              <= MaxObjs
        /\ heap' = add_directory(heap, self, directory, required)
        /\ call' = [op |-> "add_directory", self |-> self,
                    directory |-> directory, required |-> required,
                    copied |-> Value(heap, directory)]
        /\ Counted
        /\ UNCHANGED <<fsVars, cache, held>>

AddDirectories ==
    \E self \in held, d1, d2 \in held, required \in BOOLEAN :
        /\ Len(DirectoryList(heap, self, required)) + 2 <= MaxList
        /\ Cardinality(DOMAIN heap) + Cardinality(Reach(heap, d1))
              + Cardinality(Reach(heap, d2)) + (IF d2 = self THEN 1 ELSE 0)
              <= MaxObjs
        /\ heap' = add_directories(heap, self, <<d1, d2>>, required)
        /\ call' = [op |-> "add_directories", self |-> self]
        /\ Counted
        /\ UNCHANGED <<fsVars, cache, held>>

\* self.to_json(), and the text parsed back with from_json
ToJson ==
    \E self \in held :
        LET r == to_json(heap, self)
            parsed == from_json(EmptyHeap, r.text)
        IN /\ heap' = r.heap
           /\ call' = [op |-> "to_json", self |-> self,
                       before |-> Value(heap, self), text |-> r.text,
                       back |-> Value(parsed.heap, parsed.root)]
           /\ Counted
           /\ UNCHANGED <<fsVars, cache, held>>

NextPattern ==
    New \/ SetName \/ AddFile \/ AddFiles \/ AddDirectory \/ AddDirectories
    \/ ToJson
SpecPattern == InitPattern /\ [][NextPattern]_vars

\* ------------------------------------------------- comparing two patterns
PInt1 == WithFile(FileStructureRequirement, IntM1, TRUE)
PInt2 == WithFile(FileStructureRequirement, IntM2, TRUE)
EqPatterns ==
    {PAny, PName, PEmptyName, PFile, PTwo, PTree, PTwoTrees, POptFile,
     POptDir, POptOnly, POptBelow, PInt1, PInt2,
     WithDirectory(FileStructureRequirement, PInt1, FALSE)}

\* self == other, hash(self), hash(other)
Compare ==
    \E self \in EqPatterns, other \in EqPatterns :
        /\ call' = [op |-> "eq", self |-> self, other |-> other,
                    eq |-> PatternEq(self, other),
                    hashes |-> <<PatternHash(self), PatternHash(other)>>]
        /\ UNCHANGED <<fsVars, cache, objVars>>

NextEq == Compare
SpecEq == InitPattern /\ [][NextEq]_vars

\* the Matcher alone, on every filesystem and pattern within the bounds
NextMatch == Match
SpecMatch == Init /\ [][NextMatch]_vars

\* ================================================================== scan
NoDup(s) == \A i, j \in 1..Len(s) : s[i] = s[j] => i = j

\* the Matcher invoked on directory d as the filesystem is now
MatcherOn(fs, d, p) ==
    LET e == Enumerate(fs, d)
    IN IF e.err # "none" THEN "E" ELSE matches(p, fs, e.triple)

ScanReturned == call.op = "scan" /\ call.err = "none"

\* C1 (as claimed): every ScanResult(d, p) that scan returns has p among
\* the input patterns, d at or below the root, and the Matcher true on (d, p)
ScanSoundness ==
    ScanReturned =>
        \A r \in Range(call.result) :
            /\ r.pattern \in Range(call.patterns)
            /\ IsPrefix(call.source, r.source)
            /\ MatcherOn(fsNow, r.source, r.pattern) = "T"

\* C2 (as claimed): every directory at or below the root on which the
\* Matcher is true for an input pattern is in the set that scan returns
ScanCompleteness ==
    ScanReturned =>
        \A d \in dirs : \A p \in Range(call.patterns) :
            (IsPrefix(call.source, d) /\ MatcherOn(fsNow, d, p) = "T")
                => ScanResult(d, p) \in Range(call.result)

ScanNeverTruncates ==
    (call.op = "scan" /\ call.skipped # {}) => call.err # "none"

\* ================================================================ Matcher
NotSet(name) == name = None \/ name = <<>>

\* the three conditions of the Matcher, stated on the directory tree
RECURSIVE Satisfies(_, _, _)
Satisfies(node, fs, path) ==
    /\ path \in fs.dirs \ fs.unreadable
    /\ NotSet(node.directory_name) \/ fnmatch(Last(path), node.directory_name)
    /\ \A p \in Range(node.files) :
          \E n \in FileNamesIn(fs, path) : fnmatch(n, p)
    /\ \A b \in Range(node.directories) :
          \E d \in SubdirNames(fs, path) : Satisfies(b, fs, Append(path, d))

MatchCalled == call.op = "matches"

RECURSIVE StripOptional(_)
StripOptional(p) ==
    [directory_name |-> p.directory_name,
     files |-> p.files,
     directories |-> [i \in DOMAIN p.directories |->
                         StripOptional(p.directories[i])],
     optional_files |-> <<>>,
     optional_directories |-> <<>>]

RECURSIVE WithOptional(_)
WithOptional(p) ==
    [directory_name |-> p.directory_name,
     files |-> p.files,
     directories |-> [i \in DOMAIN p.directories |->
                         WithOptional(p.directories[i])],
     optional_files |-> Append(p.optional_files, <<"a", "a">>),
     optional_directories |-> Append(p.optional_directories, PTwo)]

NoRequirement(p) ==
    p.directory_name = None /\ p.files = <<>> /\ p.directories = <<>>

OptionalNeverMatters ==
    MatchCalled =>
        /\ matches(StripOptional(call.pattern), fsNow, call.triple) = call.result
        /\ matches(WithOptional(call.pattern), fsNow, call.triple) = call.result
        /\ NoRequirement(call.pattern) => call.result = "T"

OptionalWitness ==
    /\ MatchCalled
    /\ call.pattern = POptFile
    /\ call.result = "T"
    /\ ~\E j \in 1..Len(call.triple.filenames) :
           fnmatch(call.triple.filenames[j], <<"?", "b">>)

\* ======================================================= Structure Pattern

\* a forest: no object below itself, none stored twice, and no reference
\* the caller holds stored in any object
TreeShaped(h, callerHeld) ==
    /\ \A i \in DOMAIN h : i \notin ReachFrom(h, Children(h, i))
    /\ \A i \in DOMAIN h :
          NoDup(h[i].directories \o h[i].optional_directories)
    /\ \A i, j \in DOMAIN h :
          i # j => Children(h, i) \cap Children(h, j) = {}
    /\ \A i \in DOMAIN h : Children(h, i) \cap callerHeld = {}

\* what add_directory stored is a new object with the value of its argument
CopyStored(h, c) ==
    c.op = "add_directory" =>
        LET list == DirectoryList(h, c.self, c.required)
        IN /\ list # <<>>
           /\ Last(list) # c.directory
           /\ Value(h, Last(list)) = c.copied

\* C8: after any sequence of builder operations the objects form a tree of
\* independent copies, and an operation on one object the caller holds
\* changes no other object the caller holds
NoAliasing ==
    [][/\ TreeShaped(heap', held')
       /\ CopyStored(heap', call')
       /\ \A q \in held :
             q # call'.self => Value(heap', q) = Value(heap, q)]_vars

NoAliasingWitness ==
    /\ call.op = "add_directory"
    /\ call.directory = call.self
    /\ Len(heap[call.self].directories) = 2

\* C9 (as claimed): two patterns compare equal exactly when their five
\* fields are deeply equal, and equal patterns have the same hash
StructuralEquality ==
    call.op = "eq" =>
        /\ call.eq <=> (call.self = call.other)
        /\ call.eq => call.hashes[1] = call.hashes[2]

\* C10: the declaration of a pattern parses back to a pattern structurally
\* equal to it, and producing the declaration leaves the pattern as it was
RoundTrip ==
    call.op = "to_json" =>
        /\ call.back = call.before
        /\ Value(heap, call.self) = call.before

RoundTripWitness ==
    /\ call.op = "to_json"
    /\ call.before.directory_name = None
    /\ call.before.optional_files # <<>>
    /\ call.before.directories # <<>>
    /\ \E i \in DOMAIN call.before.optional_directories :
          call.before.optional_directories[i].directories # <<>>

\* ================================================================ Shuffler
\* ------------------------------------------------------------------- copy
\* the optional file patterns left out
all_files_required(self) == Range(self.files)

\* list(set(files) | set(optional_files)), used only under any()
all_files(self) == Range(self.files) \cup Range(self.optional_files)

\* a Python set of patterns listed: equal patterns (__eq__) collapse
RECURSIVE SetList(_, _)
SetList(s, acc) ==
    IF s = <<>> THEN acc
    ELSE SetList(Tail(s),
                 IF \E y \in Range(acc) : PatternEq(y, Head(s))
                 THEN acc ELSE Append(acc, Head(s)))

Reverse(s) == [i \in 1..Len(s) |-> s[Len(s) + 1 - i]]
\* the iteration orders a set of patterns may have
Orders == {"fwd", "rev"}

\* list(set(directories) | set(optional_directories)): the order of the
\* list is the iteration order of the set
all_directories(self, order) ==
    LET u == SetList(self.directories \o self.optional_directories, <<>>)
    IN IF order = "rev" THEN Reverse(u) ELSE u

Ancestors(p) == {SubSeq(p, 1, k) : k \in 1..Len(p)}

\* a mkdir that never refuses an existing directory
mkdirAlways(fs, destination, exist_ok) ==
    [err |-> "none",
     fs |-> [fs EXCEPT !.dirs = @ \cup Ancestors(destination)]]

\* a mkdir that empties the directory it finds
mkdirFresh(fs, destination, exist_ok) ==
    IF destination \in fs.dirs
    THEN [err |-> IF exist_ok THEN "none" ELSE "FileExistsError",
          fs |-> IF exist_ok
                 THEN [fs EXCEPT
                          !.dirs = {p \in @ : p = destination
                                                \/ ~IsPrefix(destination, p)},
                          !.files = [f \in {g \in DOMAIN @ :
                                              ~IsPrefix(destination, g[1])} |->
                                        @[f]]]
                 ELSE fs]
    ELSE [err |-> "none",
          fs |-> [fs EXCEPT !.dirs = @ \cup Ancestors(destination)]]

\* destination.mkdir(parents=True, exist_ok=exist_ok)
mkdir(fs, destination, exist_ok) ==
    IF destination \in fs.dirs
    THEN [err |-> IF exist_ok THEN "none" ELSE "FileExistsError", fs |-> fs]
    ELSE [err |-> "none",
          fs |-> [fs EXCEPT !.dirs = @ \cup Ancestors(destination)]]

\* a copy that takes the file away from where it was
copy2Move(fs, file, target) ==
    [fs EXCEPT !.files = [f \in (DOMAIN @ \ {file}) \cup {target} |->
                             IF f = target THEN @[file] ELSE @[f]]]

\* shutil.copy2(file, target): target gets the content of file
copy2(fs, file, target) ==
    [fs EXCEPT !.files = [f \in DOMAIN @ \cup {target} |->
                             IF f = target THEN @[file] ELSE @[f]]]

RECURSIVE CopyFiles(_, _, _, _, _, _, _)
RECURSIVE copy(_, _, _, _, _, _, _)
RECURSIVE CopyBranches(_, _, _, _, _, _, _, _)
RECURSIVE CopyDirectories(_, _, _, _, _, _, _, _, _)

Ok(fs) == [err |-> "none", fs |-> fs]
Raised(err, fs) == [err |-> err, fs |-> fs]

\* the file loop copying under dryrun as well
CopyFilesAlways(self, fs, source, filenames, destination, dryrun, i) ==
    IF i > Len(filenames) THEN fs
    ELSE CopyFiles(self,
             IF \E pattern \in all_files(self) :
                   PathMatch(Append(source, filenames[i]), pattern)
             THEN copy2(fs, <<source, filenames[i]>>,
                        <<destination, filenames[i]>>)
             ELSE fs,
             source, filenames, destination, dryrun, i + 1)

\* the loop over the files of source, from position i
CopyFiles(self, fs, source, filenames, destination, dryrun, i) ==
    IF i > Len(filenames) THEN fs
    ELSE CopyFiles(self,
             IF /\ \E pattern \in all_files(self) :
                      PathMatch(Append(source, filenames[i]), pattern)
                /\ ~dryrun
             THEN copy2(fs, <<source, filenames[i]>>,
                        <<destination, filenames[i]>>)
             ELSE fs,
             source, filenames, destination, dryrun, i + 1)

\* branch k has been handled with outcome c: an exception leaves the
\* loops, otherwise the next branch is tried (there is no break)
BranchDone(self, c, order, directory, target, overwrite, dryrun, k) ==
    IF c.err # "none" THEN c
    ELSE CopyBranches(self, c.fs, order, directory, target, overwrite, dryrun, k + 1)

\* branch.matches(...) answered m: the branch copies the directory if it
\* matched
BranchChecked(self, fs, order, directory, target, overwrite, dryrun, k, m) ==
    IF m = "E" THEN Raised("RuntimeError", fs)
    ELSE BranchDone(self,
             IF m = "T"
             THEN copy(all_directories(self, order)[k], fs, order, directory,
                       target, overwrite, dryrun)
             ELSE Ok(fs),
             order, directory, target, overwrite, dryrun, k)

\* next(directory.walk()) gave w
BranchWalked(self, fs, order, directory, target, overwrite, dryrun, k, w) ==
    IF w.err # "none" THEN Raised("StopIteration", fs)
    ELSE BranchChecked(self, fs, order, directory, target, overwrite, dryrun,
             k, matches(all_directories(self, order)[k], fs, w.triple))

\* the inner loop over self.all_directories for one subdirectory of
\* source, from branch k
CopyBranches(self, fs, order, directory, target, overwrite, dryrun, k) ==
    IF k > Len(all_directories(self, order)) THEN Ok(fs)
    ELSE BranchWalked(self, fs, order, directory, target, overwrite, dryrun,
                      k, NextWalk(fs, directory))

\* subdirectory i has been handled with outcome r
DirectoryDone(self, r, order, source, dirnames, destination, overwrite, dryrun, i) ==
    IF r.err # "none" THEN r
    ELSE CopyDirectories(self, r.fs, order, source, dirnames, destination, overwrite, dryrun, i + 1)

\* the outer loop over the subdirectories of source, from position i
CopyDirectories(self, fs, order, source, dirnames, destination, overwrite, dryrun, i) ==
    IF i > Len(dirnames) THEN Ok(fs)
    ELSE DirectoryDone(self,
             CopyBranches(self, fs, order, Append(source, dirnames[i]),
                          Append(destination, dirnames[i]), overwrite,
                          dryrun, 1),
             order, source, dirnames, destination, overwrite, dryrun, i)

\* the second source.iterdir() of copy, on the filesystem f the file loop
\* left, and the loop over its directories
CopySubdirectories(self, f, order, source, destination, overwrite, dryrun) ==
    CopyDirectories(self, f, order, source,
                    Enumerate(f, source).triple.dirnames, destination,
                    overwrite, dryrun, 1)

\* the first source.iterdir() of copy gave e: the file loop, then the
\* directory loop
CopyListed(self, fs, e, order, source, destination, overwrite, dryrun) ==
    IF e.err # "none" THEN Raised(e.err, fs)
    ELSE CopySubdirectories(self,
             CopyFiles(self, fs, source, e.triple.filenames, destination,
                       dryrun, 1),
             order, source, destination, overwrite, dryrun)

\* copy after destination.mkdir ended as made
CopyMade(self, made, order, source, destination, overwrite, dryrun) ==
    IF made.err # "none" THEN made
    ELSE CopyListed(self, made.fs, Enumerate(made.fs, source), order, source,
                    destination, overwrite, dryrun)

\* a copy whose dry run looks for the destination as the real run does
copyChecked(self, fs, order, source, destination, overwrite, dryrun) ==
    CopyMade(self,
             IF dryrun
             THEN Raised(mkdir(fs, destination, overwrite).err, fs)
             ELSE mkdir(fs, destination, overwrite),
             order, source, destination, overwrite, dryrun)

\* FileStructureRequirement.copy: the exception raised ("none": returned)
\* and the filesystem it leaves
copy(self, fs, order, source, destination, overwrite, dryrun) ==
    CopyMade(self,
             IF dryrun THEN Ok(fs) ELSE mkdir(fs, destination, overwrite),
             order, source, destination, overwrite, dryrun)

\* ---------------------------------------------------------------- shuffle
ShuffleInput(source, destination, pattern) ==
    [source |-> source, destination |-> destination, pattern |-> pattern]
ShuffleResult(source, destination, pattern) ==
    [source |-> source, destination |-> destination, pattern |-> pattern]

RECURSIVE ShuffleLoop(_, _, _, _, _, _, _, _)

\* the copy of input i ended as c: the input is appended to copied, or
\* FileExistsError is logged and the loop goes on, or the exception leaves
\* shuffle
ShuffleStep(c, fs, order, shuffle_def, overwrite, dryrun, i, copied, steps) ==
    IF c.err \in {"none", "FileExistsError"}
    THEN ShuffleLoop(c.fs, order, shuffle_def, overwrite, dryrun, i + 1,
             IF c.err = "none"
             THEN Append(copied, ShuffleResult(shuffle_def[i].source,
                                               shuffle_def[i].destination,
                                               shuffle_def[i].pattern))
             ELSE copied,
             Append(steps, [before |-> fs, after |-> c.fs, err |-> c.err]))
    ELSE [err |-> c.err, copied |-> copied, fs |-> c.fs,
          steps |-> Append(steps, [before |-> fs, after |-> c.fs,
                                   err |-> c.err])]

\* the loop of shuffle from input i: copied so far, and for every input
\* processed the filesystem before and after it and how its copy ended
ShuffleLoop(fs, order, shuffle_def, overwrite, dryrun, i, copied, steps) ==
    IF i > Len(shuffle_def)
    THEN [err |-> "none", copied |-> copied, fs |-> fs, steps |-> steps]
    ELSE ShuffleStep(copy(shuffle_def[i].pattern, fs, order,
                          shuffle_def[i].source, shuffle_def[i].destination,
                          overwrite, dryrun),
                     fs, order, shuffle_def, overwrite, dryrun, i, copied,
                     steps)

\* shuffle with use_threading=False
shuffle(fs, order, shuffle_def, overwrite, dryrun) ==
    ShuffleLoop(fs, order, shuffle_def, overwrite, dryrun, 1, <<>>, <<>>)

\* map(lambda match: ShuffleInput(...), matches)
MapInputs(matches_, destination_fn) ==
    [i \in 1..Len(matches_) |->
        ShuffleInput(matches_[i].source, destination_fn[matches_[i]],
                     matches_[i].pattern)]

\* every match copied into the destination root itself
shuffle_to_root(fs, order, matches_, destination, overwrite, dryrun) ==
    LET fn == [match \in Range(matches_) |-> destination]
    IN shuffle(fs, order, MapInputs(matches_, fn), overwrite, dryrun)

shuffle_to(fs, order, matches_, destination, overwrite, dryrun) ==
    LET fn == [match \in Range(matches_) |->
                  Append(destination, Last(match.source))]
    IN shuffle(fs, order, MapInputs(matches_, fn), overwrite, dryrun)

shuffle_with(fs, order, matches_, destination_fn, overwrite, dryrun) ==
    shuffle(fs, order, MapInputs(matches_, destination_fn), overwrite, dryrun)

\* ----------------------------------------------- inputs of the shuffle calls
QAny == FileStructureRequirement
\* required "?a"
QOnlyA == WithFile(FileStructureRequirement, <<"?", "a">>, TRUE)
\* required "?a", optional "?b"
QReqOpt == WithFile(QOnlyA, <<"?", "b">>, FALSE)
\* required "?a" and a required subdirectory holding "?a"
QTree == WithDirectory(QOnlyA, QOnlyA, TRUE)
\* a required subdirectory holding "?a", an optional one taking "a*"
QTwice == WithDirectory(WithDirectory(FileStructureRequirement, QOnlyA, TRUE),
                        WithFile(FileStructureRequirement, <<"a", "*">>, FALSE),
                        FALSE)
ShufflePatterns == {QAny, QOnlyA, QReqOpt, QTree, QTwice}

SrcA == << <<"a">> >>
SrcAA == << <<"a">>, <<"a">> >>
SrcAB == << <<"a">>, <<"b">> >>
DstB == << <<"b">> >>
DstBA == << <<"b">>, <<"a">> >>
DstBB == << <<"b">>, <<"b">> >>
ShuffleSources == {SrcA, SrcAA, SrcAB}

\* the files a filesystem of this part may hold, each with its own content
FileSlots ==
    [f \in {<<SrcA, <<"a", "a">> >>, <<SrcA, <<"a", "b">> >>,
            <<SrcAA, <<"a", "a">> >>, <<SrcAA, <<"a", "b">> >>,
            <<DstBA, <<"a", "a">> >>} |->
        IF f[1] = DstBA THEN 5
        ELSE IF f[1] = SrcA THEN (IF f[2] = <<"a", "a">> THEN 1 ELSE 2)
        ELSE (IF f[2] = <<"a", "a">> THEN 3 ELSE 4)]

SourcePairs == {<<SrcA, SrcAA>>, <<SrcAA, SrcAB>>, <<SrcA, SrcA>>}
DestinationPairs == {<<DstBA, DstBB>>, <<DstBA, DstBA>>}

ShuffleDefs ==
    {<<ShuffleInput(s, d, p)>> :
        s \in ShuffleSources, d \in {DstB, DstBA}, p \in ShufflePatterns}
    \cup {<<ShuffleInput(s[1], d[1], p), ShuffleInput(s[2], d[2], p)>> :
            s \in SourcePairs, d \in DestinationPairs, p \in ShufflePatterns}

MatchLists ==
    {<<ScanResult(s, p)>> : s \in ShuffleSources, p \in ShufflePatterns}
    \cup {<<ScanResult(s[1], p), ScanResult(s[2], p)>> :
            s \in SourcePairs, p \in ShufflePatterns}

\* the iteration order matters only where a set holds two sub-patterns
OrdersOf(pattern) ==
    IF Len(all_directories(pattern, "fwd")) > 1 THEN Orders ELSE {"fwd"}

\* the destination functions of shuffle_with: the source tree mirrored
\* below "b", and one fixed directory
Matches == {ScanResult(s, p) : s \in ShuffleSources, p \in ShufflePatterns}
DestinationFns ==
    {[match \in Matches |-> DstB \o match.source],
     [match \in Matches |-> DstBB]}

InitShuffle ==
    /\ dirs \in {D \in SUBSET {SrcA, SrcAA, SrcAB, DstB, DstBA} :
                    {SrcA, SrcAA, SrcAB} \subseteq D /\ PrefixClosed(D)}
    /\ \E F \in SUBSET {f \in DOMAIN FileSlots : f[1] \in dirs} :
          /\ <<SrcA, <<"a", "a">> >> \in F
          /\ files = [f \in F |-> FileSlots[f]]
    /\ unreadable \in {{}} \cup {{d} : d \in dirs \cap {SrcA, SrcAA}}
    /\ nchanges = 0
    /\ cache = NoCache
    /\ call = NoCall
    /\ heap = EmptyHeap
    /\ held = {}
    /\ nops = 0

\* the state after a shuffle call that ended as r
Shuffled(op, r, inputs, overwrite, dryrun, order) ==
    /\ dirs' = r.fs.dirs
    /\ files' = r.fs.files
    /\ call' = [op |-> op, inputs |-> inputs, overwrite |-> overwrite,
                dryrun |-> dryrun, order |-> order, before |-> fsNow,
                err |-> r.err, result |-> r.copied, steps |-> r.steps]

Shuffle ==
    /\ call = NoCall
    /\ \E shuffle_def \in ShuffleDefs, overwrite \in BOOLEAN,
          dryrun \in BOOLEAN :
         \E order \in OrdersOf(shuffle_def[1].pattern) :
            Shuffled("shuffle",
                     shuffle(fsNow, order, shuffle_def, overwrite, dryrun),
                     shuffle_def, overwrite, dryrun, order)
    /\ UNCHANGED <<unreadable, nchanges, cache, objVars>>

ShuffleTo ==
    /\ call = NoCall
    /\ \E matches_ \in MatchLists, destination \in {DstB},
          overwrite \in BOOLEAN, dryrun \in BOOLEAN :
         \E order \in OrdersOf(matches_[1].pattern) :
            Shuffled("shuffle_to",
                     shuffle_to(fsNow, order, matches_, destination,
                                overwrite, dryrun),
                     [i \in 1..Len(matches_) |->
                         [source |-> matches_[i].source,
                          destination |->
                              Append(destination, Last(matches_[i].source)),
                          pattern |-> matches_[i].pattern,
                          root |-> destination]],
                     overwrite, dryrun, order)
    /\ UNCHANGED <<unreadable, nchanges, cache, objVars>>

ShuffleWith ==
    /\ call = NoCall
    /\ \E matches_ \in {m \in MatchLists : Len(m) = 1},
          destination_fn \in DestinationFns,
          overwrite \in BOOLEAN, dryrun \in BOOLEAN :
         \E order \in OrdersOf(matches_[1].pattern) :
            Shuffled("shuffle_with",
                     shuffle_with(fsNow, order, matches_, destination_fn,
                                  overwrite, dryrun),
                     [i \in 1..Len(matches_) |->
                         [source |-> matches_[i].source,
                          destination |-> destination_fn[matches_[i]],
                          pattern |-> matches_[i].pattern]],
                     overwrite, dryrun, order)
    /\ UNCHANGED <<unreadable, nchanges, cache, objVars>>

NextShuffle == Shuffle \/ ShuffleTo \/ ShuffleWith
SpecShuffle == InitShuffle /\ [][NextShuffle]_vars

\* =============================================================== shuffle
ShuffleCalled == call.op \in {"shuffle", "shuffle_to", "shuffle_with"}

AsResult(input) ==
    ShuffleResult(input.source, input.destination, input.pattern)

\* the inputs whose copy completed, in input order
CopiedInputs ==
    LET idx == SelectSeq([i \in 1..Len(call.steps) |-> i],
                         LAMBDA i : call.steps[i].err = "none")
    IN [k \in 1..Len(idx) |-> AsResult(call.inputs[idx[k]])]

\* the destination of input i existed when its turn came
ExistedAt(i) == call.inputs[i].destination \in call.steps[i].before.dirs

\* what a filesystem holds at and below directory d
Under(fs, d) ==
    [dirs |-> {p \in fs.dirs : IsPrefix(d, p)},
     files |-> [f \in {g \in DOMAIN fs.files : IsPrefix(d, g[1])} |->
                   fs.files[f]]]

\* C11 (as claimed): in a serial shuffle without overwrite, an input whose
\* destination already exists is skipped, the batch is not aborted, every
\* input is processed, and the returned list is exactly the inputs that were
\* copied, in input order
ShufflePartialFailure ==
    (/\ ShuffleCalled
     /\ ~call.overwrite
     /\ ~call.dryrun
     /\ \E i \in 1..Len(call.steps) : ExistedAt(i)) =>
        /\ call.err = "none"
        /\ Len(call.steps) = Len(call.inputs)
        /\ \A i \in 1..Len(call.steps) :
              ExistedAt(i) => call.steps[i].err = "FileExistsError"
        /\ call.result = CopiedInputs

\* C12 (as claimed): an input that shuffle without overwrite leaves out of
\* its result because of a destination-exists conflict has nothing created
\* or modified at or below its destination
SkippedChangesNothing ==
    (ShuffleCalled /\ ~call.overwrite) =>
        \A i \in 1..Len(call.steps) :
            call.steps[i].err = "FileExistsError" =>
                Under(call.steps[i].after, call.inputs[i].destination)
                    = Under(call.steps[i].before, call.inputs[i].destination)

\* C13 (as claimed): when the copy of an input fails with an error other
\* than destination-exists, shuffle goes on with the remaining inputs and
\* returns the list of the inputs that succeeded
FailedCopyReported ==
    (/\ ShuffleCalled
     /\ \E i \in 1..Len(call.steps) :
           call.steps[i].err \notin {"none", "FileExistsError"}) =>
        /\ call.err = "none"
        /\ Len(call.steps) = Len(call.inputs)
        /\ call.result = CopiedInputs

\* C14: a shuffle, shuffle_to or shuffle_with call with dryrun=True leaves
\* every directory and every file of the filesystem as it was
DryRunWritesNothing ==
    (ShuffleCalled /\ call.dryrun) =>
        /\ dirs = call.before.dirs
        /\ files = call.before.files
        /\ \A i \in 1..Len(call.steps) :
              call.steps[i].after = call.steps[i].before

\* a dry run of a copy that recurses into a matching subdirectory and that,
\* run for real, would have created the destination
DryRunWitness ==
    /\ ShuffleCalled
    /\ call.dryrun
    /\ call.err = "none"
    /\ Len(call.result) = 1
    /\ call.inputs[1].pattern = QTree
    /\ call.inputs[1].source = SrcA
    /\ <<SrcAA, <<"a", "a">> >> \in DOMAIN files
    /\ call.inputs[1].destination \notin dirs

\* the names of the files directly in source that the pattern selects
Selected(fs, source, pattern) ==
    {n \in FileNamesIn(fs, source) :
        \E g \in Range(pattern.files) \cup Range(pattern.optional_files) :
            fnmatch(n, g)}

\* C15: shuffle_to copies each match to R / source.name, the children of
\* source becoming children of R / source.name, and returns
\* ShuffleResult(source, R / source.name, pattern) for each success;
\* shuffle_with does the same with the caller's destination
ShuffleToDestination ==
    (call.op \in {"shuffle_to", "shuffle_with"} /\ call.err = "none") =>
        /\ call.result = CopiedInputs
        /\ \A i \in 1..Len(call.steps) :
              (call.steps[i].err = "none" /\ ~call.dryrun) =>
                  LET in == call.inputs[i]
                      after == call.steps[i].after
                      before == call.steps[i].before
                  IN /\ in.destination \in after.dirs
                     /\ \A n \in Selected(before, in.source, in.pattern) :
                           /\ <<in.destination, n>> \in DOMAIN after.files
                           /\ after.files[<<in.destination, n>>]
                                 = before.files[<<in.source, n>>]
                     /\ in.destination \notin before.dirs =>
                           SubdirNames(after, in.destination)
                              \subseteq SubdirNames(before, in.source)
                     /\ \A p \in after.dirs \ before.dirs :
                           IsPrefix(p, in.destination)
                           \/ IsPrefix(in.destination, p)
        /\ call.op = "shuffle_to" =>
              \A i \in 1..Len(call.inputs) :
                  call.inputs[i].destination
                     = Append(call.inputs[i].root, Last(call.inputs[i].source))

ShuffleToWitness ==
    /\ call.op = "shuffle_to"
    /\ ~call.dryrun
    /\ call.err = "none"
    /\ call.result = <<ShuffleResult(SrcAA, DstBA, QReqOpt)>>
    /\ DstBA \notin call.before.dirs
    /\ FileNamesIn(fsNow, DstBA) = {<<"a", "a">>, <<"a", "b">>}

\* C16: after a successful copy that is not a dry run, to a destination
\* that did not exist, the files directly in the destination are exactly
\* the files directly in source whose names match a required or optional
\* file pattern, each with the content of the source file
CopyFileSelection ==
    (ShuffleCalled /\ ~call.dryrun) =>
        \A i \in 1..Len(call.steps) :
            (/\ call.steps[i].err = "none"
             /\ call.inputs[i].destination \notin call.steps[i].before.dirs) =>
                LET in == call.inputs[i]
                    after == call.steps[i].after
                    before == call.steps[i].before
                IN /\ FileNamesIn(after, in.destination)
                         = Selected(before, in.source, in.pattern)
                   /\ \A n \in FileNamesIn(after, in.destination) :
                         after.files[<<in.destination, n>>]
                            = before.files[<<in.source, n>>]

\* one file copied for the required pattern, one left behind
CopyFileSelectionWitness ==
    /\ call.op = "shuffle"
    /\ ~call.dryrun
    /\ call.result = <<ShuffleResult(SrcA, DstB, QOnlyA)>>
    /\ DstB \notin call.before.dirs
    /\ FileNamesIn(call.before, SrcA) = {<<"a", "a">>, <<"a", "b">>}
    /\ FileNamesIn(fsNow, DstB) = {<<"a", "a">>}
    /\ files[<<DstB, <<"a", "a">> >>] = 1

\* the first sub-pattern, in iteration order, that matches directory d
FirstMatch(fs, pattern, order, d) ==
    LET bs == all_directories(pattern, order)
        hit == {k \in 1..Len(bs) :
                   matches(bs[k], fs, Enumerate(fs, d).triple) = "T"}
    IN IF hit = {} THEN <<>>
       ELSE <<bs[CHOOSE k \in hit : \A j \in hit : k <= j]>>

\* C17 (as claimed): each immediate subdirectory of source is copied to
\* destination/<same name> once, with the first sub-pattern that matches
\* it, and a subdirectory matched by no sub-pattern is not copied
CopyUsesFirstMatch ==
    (ShuffleCalled /\ ~call.dryrun /\ unreadable = {}) =>
        \A i \in 1..Len(call.steps) :
            (call.inputs[i].destination \notin call.steps[i].before.dirs) =>
                LET in == call.inputs[i]
                    after == call.steps[i].after
                    before == call.steps[i].before
                IN /\ call.steps[i].err = "none"
                   /\ \A n \in SubdirNames(before, in.source) :
                         LET first == FirstMatch(before, in.pattern,
                                          call.order, Append(in.source, n))
                             target == Append(in.destination, n)
                         IN IF first = <<>> THEN target \notin after.dirs
                            ELSE /\ target \in after.dirs
                                 /\ FileNamesIn(after, target)
                                       = Selected(before,
                                                  Append(in.source, n),
                                                  first[1])

\* ================================================= shuffle, use_threading
\* FileStructurePattern.threaded_copy: the copy of section 4.6 of the
\* specification with the file copies handed to a pool of max_workers
\* workers. The calling thread creates the directories and collects the
\* file copies; the workers carry them out in any order.

RECURSIVE FirstBranch(_, _, _, _)
RECURSIVE PlanThreadedCopy(_, _, _, _, _, _, _)
RECURSIVE PlanDirectories(_, _, _, _, _, _, _, _, _, _)
RECURSIVE NextInput(_, _, _, _, _, _, _)

\* branches[k] answered m
FirstBranchChecked(branches, fs, triple, k, m) ==
    IF m = "E" THEN [err |-> TRUE, hit |-> <<>>]
    ELSE IF m = "T" THEN [err |-> FALSE, hit |-> <<branches[k]>>]
    ELSE FirstBranch(branches, fs, triple, k + 1)

\* the first sub-pattern, in iteration order, that matches the directory
\* with this triple (none: hit is empty), or that a check raised
FirstBranch(branches, fs, triple, k) ==
    IF k > Len(branches) THEN [err |-> FALSE, hit |-> <<>>]
    ELSE FirstBranchChecked(branches, fs, triple, k,
                            matches(branches[k], fs, triple))

\* the first matching sub-pattern for a subdirectory listed as e
FirstOf(self, fs, order, e) ==
    IF e.err # "none" THEN [err |-> TRUE, hit |-> <<>>]
    ELSE FirstBranch(all_directories(self, order), fs, e.triple, 1)

\* subdirectory i has been planned with outcome p
PlanNext(self, p, order, source, dirnames, destination, overwrite, dryrun, i, tasks) ==
    IF p.err # "none"
    THEN [err |-> p.err, fs |-> p.fs, tasks |-> tasks \cup p.tasks]
    ELSE PlanDirectories(self, p.fs, order, source, dirnames, destination, overwrite, dryrun, i + 1, tasks \cup p.tasks)

\* subdirectory i is planned with its first matching sub-pattern, if any
PlanFirst(self, fs, order, source, dirnames, destination, overwrite, dryrun, i, tasks, first) ==
    IF first.err
    THEN [err |-> "PermissionError", fs |-> fs, tasks |-> tasks]
    ELSE PlanNext(self,
             IF first.hit = <<>>
             THEN [err |-> "none", fs |-> fs, tasks |-> {}]
             ELSE PlanThreadedCopy(first.hit[1], fs, order,
                      Append(source, dirnames[i]),
                      Append(destination, dirnames[i]), overwrite, dryrun),
             order, source, dirnames, destination, overwrite, dryrun, i,
             tasks)

\* the loop over the subdirectories of source, from position i
PlanDirectories(self, fs, order, source, dirnames, destination, overwrite, dryrun, i, tasks) ==
    IF i > Len(dirnames) THEN [err |-> "none", fs |-> fs, tasks |-> tasks]
    ELSE PlanFirst(self, fs, order, source, dirnames, destination, overwrite,
             dryrun, i, tasks,
             FirstOf(self, fs, order,
                     Enumerate(fs, Append(source, dirnames[i]))))

\* source listed as e: its matching files become file copies
PlanListed(self, fs, e, order, source, destination, overwrite, dryrun) ==
    IF e.err # "none" THEN [err |-> e.err, fs |-> fs, tasks |-> {}]
    ELSE PlanDirectories(self, fs, order, source, e.triple.dirnames,
             destination, overwrite, dryrun, 1,
             IF dryrun THEN {}
             ELSE {<< <<source, n>>, <<destination, n>> >> :
                      n \in {m \in Range(e.triple.filenames) :
                               \E g \in all_files(self) : fnmatch(m, g)}})

\* the destination directory created with outcome made
PlanMade(self, made, order, source, destination, overwrite, dryrun) ==
    IF made.err # "none"
    THEN [err |-> made.err, fs |-> made.fs, tasks |-> {}]
    ELSE PlanListed(self, made.fs, Enumerate(made.fs, source), order, source,
                    destination, overwrite, dryrun)

\* steps 1 to 3 for one directory level: the directories created, and
\* the file copies <<file, target>> left to the workers
PlanThreadedCopy(self, fs, order, source, destination, overwrite, dryrun) ==
    PlanMade(self,
             IF dryrun THEN Ok(fs) ELSE mkdir(fs, destination, overwrite),
             order, source, destination, overwrite, dryrun)

\* threaded_copy of input i planned with outcome p
InputPlanned(p, order, shuffle_def, overwrite, dryrun, i, failed) ==
    IF p.err = "none"
    THEN [i |-> i, fs |-> p.fs, tasks |-> p.tasks, failed |-> failed,
          err |-> "none"]
    ELSE IF p.err = "FileExistsError"
    THEN NextInput(p.fs, order, shuffle_def, overwrite, dryrun, i + 1,
                   failed \cup {i})
    ELSE [i |-> Len(shuffle_def) + 1, fs |-> p.fs, tasks |-> {},
          failed |-> failed \cup {i}, err |-> p.err]

\* the loop of shuffle moves to the next input whose threaded_copy starts
\* its workers; an input that raises FileExistsError is logged and skipped,
\* any other exception ends the loop
NextInput(fs, order, shuffle_def, overwrite, dryrun, i, failed) ==
    IF i > Len(shuffle_def)
    THEN [i |-> i, fs |-> fs, tasks |-> {}, failed |-> failed, err |-> "none"]
    ELSE InputPlanned(PlanThreadedCopy(shuffle_def[i].pattern, fs, order,
                          shuffle_def[i].source, shuffle_def[i].destination,
                          overwrite, dryrun),
                      order, shuffle_def, overwrite, dryrun, i, failed)

\* batches whose inputs have disjoint source and destination subtrees
ThreadedDefs ==
    {<<ShuffleInput(SrcA, DstB, p)>> : p \in {QReqOpt, QTree, QTwice}}
    \cup {<<ShuffleInput(SrcAA, DstBA, p), ShuffleInput(SrcAB, DstBB, p)>> :
            p \in {QAny, QReqOpt}}
MaxWorkers == 2

\* the call starts at the first input n whose threaded_copy has work
ThreadedStarted(n, shuffle_def, overwrite, dryrun, order, max_workers) ==
    /\ dirs' = n.fs.dirs
    /\ files' = n.fs.files
    /\ call' = [op |-> "shuffle_threaded", inputs |-> shuffle_def,
                overwrite |-> overwrite, dryrun |-> dryrun,
                order |-> order, max_workers |-> max_workers,
                before |-> fsNow, i |-> n.i, pending |-> n.tasks,
                running |-> {}, failed |-> n.failed, result |-> <<>>,
                err |-> n.err]

\* shuffle(shuffle_def, overwrite, dryrun, use_threading=True, max_workers)
ThreadedShuffle ==
    /\ call = NoCall
    /\ \E shuffle_def \in ThreadedDefs, overwrite \in BOOLEAN,
          dryrun \in BOOLEAN, max_workers \in 1..MaxWorkers :
         \E order \in OrdersOf(shuffle_def[1].pattern) :
            ThreadedStarted(NextInput(fsNow, order, shuffle_def, overwrite,
                                      dryrun, 1, {}),
                            shuffle_def, overwrite, dryrun, order,
                            max_workers)
    /\ UNCHANGED <<unreadable, nchanges, cache, objVars>>

Threading == call.op = "shuffle_threaded" /\ call.i <= Len(call.inputs)

\* a free worker takes a file copy
WorkerStart ==
    /\ Threading
    /\ Cardinality(call.running) < call.max_workers
    /\ \E t \in call.pending :
          call' = [call EXCEPT !.pending = @ \ {t}, !.running = @ \cup {t}]
    /\ UNCHANGED <<fsVars, cache, objVars>>

\* a worker finishes its file copy
WorkerDone ==
    /\ Threading
    /\ \E t \in call.running :
          /\ files' = copy2(fsNow, t[1], t[2]).files
          /\ call' = [call EXCEPT !.running = @ \ {t}]
    /\ UNCHANGED <<dirs, unreadable, nchanges, cache, objVars>>

\* all file copies of the input are done: threaded_copy returns, the
\* input is appended to copied and the loop goes on to n
InputFinished(n) ==
    /\ dirs' = n.fs.dirs
    /\ files' = n.fs.files
    /\ call' = [call EXCEPT
                   !.i = n.i, !.pending = n.tasks, !.failed = n.failed,
                   !.err = n.err,
                   !.result = Append(@, ShuffleResult(
                                  call.inputs[call.i].source,
                                  call.inputs[call.i].destination,
                                  call.inputs[call.i].pattern))]

InputDone ==
    /\ Threading
    /\ call.pending = {}
    /\ call.running = {}
    /\ InputFinished(NextInput(fsNow, call.order, call.inputs, call.overwrite,
                               call.dryrun, call.i + 1, call.failed))
    /\ UNCHANGED <<unreadable, nchanges, cache, objVars>>

NextThreaded == ThreadedShuffle \/ WorkerStart \/ WorkerDone \/ InputDone
SpecThreaded == InitShuffle /\ [][NextThreaded]_vars

\* C18 (as claimed): on the same inputs and the same initial filesystem,
\* with disjoint source and destination subtrees, shuffle with
\* use_threading=True returns the same set of ShuffleResults and leaves the
\* same destination contents as the serial shuffle, whatever the workers'
\* interleaving
ThreadedEqualsSerial ==
    (/\ call.op = "shuffle_threaded"
     /\ call.i > Len(call.inputs)
     /\ unreadable = {}) =>
        LET serial == shuffle(call.before, call.order, call.inputs,
                              call.overwrite, call.dryrun)
        IN /\ serial.err = call.err
           /\ Range(call.result) = Range(serial.copied)
           /\ dirs = serial.fs.dirs
           /\ files = serial.fs.files

\* ================================================================= assess
\* a file is <<directory, name>>

\* FileStructurePattern.parents_of, from section 4.5 of the specification:
\* the candidate roots are the parent of the file and every ancestor above
\* it, nearest first
parents_of(self, file) ==
    [k \in 1..Len(file[1]) |-> SubSeq(file[1], 1, Len(file[1]) + 1 - k)]

\* the loop over roots for one pattern, from root j: what is yielded, the
\* cache of iterdir, and the exception that ends the generator
RECURSIVE AssessRoots(_, _, _, _, _, _, _)
AssessRoots(fs, c, kind, pattern, roots, j, acc) ==
    IF j > Len(roots) THEN [err |-> "none", results |-> acc, cache |-> c]
    ELSE LET r == iterdir(fs, c, kind, roots[j])
         IN IF r.err # "none"
            THEN [err |-> r.err, results |-> acc, cache |-> r.cache]
            ELSE LET m == matches(pattern, fs, r.triple)
                 IN IF m = "E"
                    THEN [err |-> "RuntimeError", results |-> acc,
                          cache |-> r.cache]
                    ELSE AssessRoots(fs, r.cache, kind, pattern, roots, j + 1,
                             IF m = "T"
                             THEN Append(acc, ScanResult(roots[j], pattern))
                             ELSE acc)

\* the loop over patterns, from pattern k
RECURSIVE AssessPatterns(_, _, _, _, _, _, _)
AssessPatterns(fs, c, kind, file, patterns, k, acc) ==
    IF k > Len(patterns) THEN [err |-> "none", results |-> acc, cache |-> c]
    ELSE LET r == AssessRoots(fs, c, kind, patterns[k],
                              parents_of(patterns[k], file), 1, acc)
         IN IF r.err # "none" THEN r
            ELSE AssessPatterns(fs, r.cache, kind, file, patterns, k + 1,
                                r.results)

\* list(assess(file, patterns))
assess(fs, c, kind, file, patterns) ==
    AssessPatterns(fs, c, kind, file, patterns, 1, <<>>)

AssessLists == {<<PAny>>, <<PFile>>, <<PTree, PFile>>}

Assess ==
    \E kind \in Kinds, d \in dirs, n \in {<<"a", "a">>},
       patterns \in AssessLists :
        LET r == assess(fsNow, cache, kind, <<d, n>>, patterns)
        IN /\ cache' = r.cache
           /\ call' = [op |-> "assess", kind |-> kind, file |-> <<d, n>>,
                       patterns |-> patterns, err |-> r.err,
                       result |-> r.results]
           /\ UNCHANGED <<fsVars, objVars>>

NextAssess == Mkdir \/ Rmtree \/ Touch \/ Unlink \/ Chmod \/ Assess
SpecAssess == Init /\ [][NextAssess]_vars

\* C19 (as claimed): every ScanResult(root, p) that assess yields has p
\* among the input patterns, root an ancestor directory of the file, and
\* the Matcher true on (root, p)
AssessSoundness ==
    (call.op = "assess" /\ unreadable = {}) =>
        \A r \in Range(call.result) :
            /\ r.pattern \in Range(call.patterns)
            /\ IsPrefix(r.source, call.file[1])
            /\ MatcherOn(fsNow, r.source, r.pattern) = "T"

\* C20 (as claimed): when scan(root, [p]) contains ScanResult(d, p) and the
\* file is inside d, assess(file, [p]) yields ScanResult(d, p)
AssessFindsScanMatches ==
    (call.op = "assess" /\ call.err = "none"
       /\ call.file \in DOMAIN files) =>
        \A p \in Range(call.patterns), root \in dirs, kind \in Kinds :
            LET s == scan(fsNow, cache, kind, root, <<p>>)
            IN s.err = "none" =>
                  \A r \in Range(s.matches) :
                      IsPrefix(r.source, call.file[1])
                         => ScanResult(r.source, p) \in Range(call.result)

\* ========================================================= Directory Walker
\* walk as the generator it is: the consumer takes one triple at a time and
\* may change the lists of the triple it holds before it resumes the walk.

\* the trees walked: "a" with up to two levels below it
WalkPaths ==
    {<<<<"a">>>>, <<<<"a">>, <<"a">>>>, <<<<"a">>, <<"b">>>>,
     <<<<"a">>, <<"a">>, <<"a">>>>, <<<<"a">>, <<"b">>, <<"a">>>>}

InitWalk ==
    /\ dirs \in {D \in SUBSET WalkPaths : <<<<"a">>>> \in D /\ PrefixClosed(D)}
    /\ \E F \in SUBSET ({<<<<"a">>>>} \X FileNames) :
          /\ Cardinality(F) <= MaxFiles
          /\ files = [f \in F |-> 0]
    /\ unreadable \in {U \in SUBSET dirs : Cardinality(U) <= 1}
    /\ nchanges = 0
    /\ cache = NoCache
    /\ call = NoCall
    /\ heap = EmptyHeap
    /\ held = {}
    /\ nops = 0

\* the listing walk takes of a directory: os.scandir inside os.walk for a
\* pathlib.Path, the cached iterdir for any other path type
WalkListing(fs, c, kind, path) ==
    IF kind = "Path"
    THEN [err |-> Enumerate(fs, path).err,
          triple |-> IF Enumerate(fs, path).err = "none"
                     THEN Enumerate(fs, path).triple ELSE <<>>,
          cache |-> c]
    ELSE iterdir(fs, c, kind, path)

\* os.walk ignores every scandir error (onerror=None); the iterdir branch
\* of walk catches PermissionError only
WalkSkips(kind, err) ==
    err = "PermissionError" \/ (kind = "Path" /\ err # "none")

\* the directories pushed after a yield, computed from the lists the
\* consumer gave back: os.walk pushes them reversed, walk extends dir_stack
WalkPush(kind, dir_stack, triple) ==
    dir_stack \o (IF kind = "Path"
                  THEN Reverse(ChildPaths(triple.path, triple.dirnames))
                  ELSE ChildPaths(triple.path, triple.dirnames))

RECURSIVE WalkPop(_, _, _, _)

\* the directory popped was listed as r: skipped, raised, or yielded
WalkPopped(fs, kind, rest, r) ==
    IF r.err = "none"
    THEN [err |-> "none", yielded |-> <<r.triple>>, dir_stack |-> rest,
          cache |-> r.cache]
    ELSE IF WalkSkips(kind, r.err) THEN WalkPop(fs, r.cache, kind, rest)
    ELSE [err |-> r.err, yielded |-> <<>>, dir_stack |-> rest,
          cache |-> r.cache]

\* the while loop of walk up to its next yield, its end or its exception
WalkPop(fs, c, kind, dir_stack) ==
    IF dir_stack = <<>>
    THEN [err |-> "none", yielded |-> <<>>, dir_stack |-> <<>>, cache |-> c]
    ELSE WalkPopped(fs, kind, Front(dir_stack),
                    WalkListing(fs, c, kind, Last(dir_stack)))

\* what the consumer sees of a yield: the triple, and the directory as it
\* is at that moment
Visit(fs, triple) == [triple |-> triple, now |-> Enumerate(fs, triple.path)]

MaxWalks == 2

\* the generator ran to g
Walking(g, kind, source, visits, mutated, n) ==
    /\ cache' = g.cache
    /\ call' = [op |-> "walk", kind |-> kind, source |-> source,
                dir_stack |-> g.dir_stack, yielded |-> g.yielded,
                visits |-> IF g.yielded = <<>> THEN visits
                           ELSE Append(visits, Visit(fsNow, g.yielded[1])),
                err |-> g.err, mutated |-> mutated, n |-> n,
                cache0 |-> IF visits = <<>> THEN cache ELSE call.cache0]

\* for triple in walk(source): the generator is created and run to its
\* first yield
WalkStart ==
    /\ \/ call = NoCall
       \/ call.op = "walk" /\ call.yielded = <<>> /\ call.n < MaxWalks
    /\ \E kind \in Kinds, source \in dirs :
          Walking(WalkPop(fsNow, cache, kind, <<source>>), kind, source,
                  <<>>, FALSE, IF call = NoCall THEN 1 ELSE call.n + 1)
    /\ UNCHANGED <<fsVars, objVars>>

\* the consumer asks for the next triple
WalkNext ==
    /\ call.op = "walk"
    /\ call.yielded # <<>>
    /\ Walking(WalkPop(fsNow, cache, call.kind,
                       WalkPush(call.kind, call.dir_stack, call.yielded[1])),
               call.kind, call.source, call.visits, call.mutated, call.n)
    /\ UNCHANGED <<fsVars, objVars>>

DeleteAt(s, i) == SubSeq(s, 1, i - 1) \o SubSeq(s, i + 1, Len(s))

\* the yielded triple after `del dirnames[i]` or `del filenames[i]`
Mutated(triple, list, i) ==
    IF list = "dirnames" THEN [triple EXCEPT !.dirnames = DeleteAt(@, i)]
    ELSE [triple EXCEPT !.filenames = DeleteAt(@, i)]

\* the consumer deletes an entry of a list of the triple it holds; the
\* lists walk took from iterdir are the lists the lru_cache holds
Mutate ==
    /\ call.op = "walk"
    /\ call.yielded # <<>>
    /\ ~call.mutated
    /\ \E list \in {"dirnames", "filenames"} :
          \E i \in 1..Len(call.yielded[1][list]) :
             /\ call' = [call EXCEPT
                            !.yielded = <<Mutated(@[1], list, i)>>,
                            !.mutated = TRUE]
             /\ cache' = IF call.kind = "Path" THEN cache
                         ELSE [cache EXCEPT
                                  ![<<call.kind, call.yielded[1].path>>] =
                                      Mutated(@, list, i)]
    /\ UNCHANGED <<fsVars, objVars>>

\* walks of a filesystem that changes between them
NextWalker ==
    Mkdir \/ Rmtree \/ Touch \/ Unlink \/ Chmod \/ WalkStart \/ WalkNext
SpecWalk == InitWalk /\ [][NextWalker]_vars

\* walks whose consumer changes the lists it is given
NextConsumer == WalkStart \/ WalkNext \/ Mutate
SpecConsumer == InitWalk /\ [][NextConsumer]_vars

WalkFinished == call.op = "walk" /\ call.yielded = <<>>
VisitedPaths == [i \in 1..Len(call.visits) |-> call.visits[i].triple.path]

\* C21 (as claimed): walk(root) yields one triple for root and one for
\* every directory below it; no directory is yielded twice or omitted
WalkVisitsEachOnce ==
    (WalkFinished /\ ~call.mutated) =>
        /\ call.err = "none"
        /\ NoDup(VisitedPaths)
        /\ Range(VisitedPaths) = {d \in dirs : IsPrefix(call.source, d)}

\* C22 (as claimed): the triple yielded for a directory holds the
\* directory's immediate subdirectories and files as they are at the
\* moment of the visit, also after the filesystem changed between walks
TriplesCurrent ==
    call.op = "walk" =>
        \A i \in 1..Len(call.visits) :
            /\ call.visits[i].now.err = "none"
            /\ call.visits[i].now.triple = call.visits[i].triple

\* C24 (as claimed): when the consumer changed a list of a yielded triple,
\* the directories visited and the listings kept for later walks are what
\* they are for the same walk with the lists left alone
SnapshotTriples ==
    (WalkFinished /\ call.mutated) =>
        /\ Len(call.visits)
              = Len(walk(fsNow, call.cache0, call.kind, call.source).visits)
        /\ \A i \in 1..Len(call.visits) :
              VisitedPaths[i]
                 = walk(fsNow, call.cache0, call.kind,
                        call.source).visits[i].triple.path
        /\ cache = walk(fsNow, call.cache0, call.kind, call.source).cache

\* C25 (as claimed): in the iterdir branch of walk every directory at
\* depth d below the root is yielded before any directory at depth d + 1
BreadthFirst ==
    (WalkFinished /\ call.kind # "Path" /\ ~call.mutated) =>
        \A i, j \in 1..Len(call.visits) :
            i < j => Len(VisitedPaths[i]) <= Len(VisitedPaths[j])


\* ==================================================== Results of a shuffle
\* C27: the list returned by a shuffle call with overwrite=False and
\* dryrun=False never holds two results with the same destination
UniqueDestinations ==
    (ShuffleCalled /\ ~call.overwrite /\ ~call.dryrun) =>
        \A i, j \in 1..Len(call.result) :
            call.result[i].destination = call.result[j].destination => i = j

\* shuffle_to with two matches of the same directory name: the first is
\* copied to a destination that did not exist, the second is skipped
UniqueDestinationsWitness ==
    /\ call.op = "shuffle_to"
    /\ ~call.overwrite
    /\ ~call.dryrun
    /\ call.err = "none"
    /\ Len(call.inputs) = 2
    /\ call.inputs[1].source # call.inputs[2].source
    /\ call.inputs[1].destination = call.inputs[2].destination
    /\ call.inputs[1].destination \notin call.before.dirs
    /\ call.steps[2].err = "FileExistsError"
    /\ call.result = <<AsResult(call.inputs[1])>>


\* the path of directory d with its prefix destination replaced by source
Rebased(d, destination, source) ==
    source \o SubSeq(d, Len(destination) + 1, Len(d))

\* some input copied a file of the same name onto f, which then holds the
\* content of that source file
CopiedOnto(f) ==
    \E i \in 1..Len(call.steps) :
        LET in == call.inputs[i]
            from == <<Rebased(f[1], in.destination, in.source), f[2]>>
        IN /\ IsPrefix(in.destination, f[1])
           /\ from \in DOMAIN call.steps[i].before.files
           /\ files[f] = call.steps[i].before.files[from]

\* C28: a shuffle with overwrite=True removes no directory and no file that
\* existed at or below a destination before the call, and a file there has
\* another content afterwards only if a source file of the same name was
\* copied onto it
OverwriteMerges ==
    (ShuffleCalled /\ call.overwrite) =>
        \A i \in 1..Len(call.inputs) :
            LET was == Under(call.before, call.inputs[i].destination)
            IN /\ was.dirs \subseteq dirs
               /\ DOMAIN was.files \subseteq DOMAIN files
               /\ \A f \in DOMAIN was.files :
                     files[f] # was.files[f] => CopiedOnto(f)

\* a tree merged into an existing destination: the directory that was
\* there is kept, the file in it gets the content of the source file of the
\* same name, and a new file is added beside them
OverwriteMergesWitness ==
    /\ ShuffleCalled
    /\ call.overwrite
    /\ ~call.dryrun
    /\ call.err = "none"
    /\ call.result = <<ShuffleResult(SrcA, DstB, QTree)>>
    /\ DstBA \in call.before.dirs
    /\ <<DstBA, <<"a", "a">> >> \in DOMAIN call.before.files
    /\ call.before.files[<<DstBA, <<"a", "a">> >>] = 5
    /\ files[<<DstBA, <<"a", "a">> >>] = 3
    /\ <<DstB, <<"a", "a">> >> \in DOMAIN files \ DOMAIN call.before.files


\* C30: a shuffle with dryrun=True whose sources can be enumerated returns
\* one result per input, in input order, for either value of overwrite and
\* whether or not a destination exists
DryRunPlansAll ==
    (ShuffleCalled /\ call.dryrun /\ unreadable = {}) =>
        /\ call.err = "none"
        /\ call.result = [i \in 1..Len(call.inputs) |->
                             AsResult(call.inputs[i])]

\* a dry run without overwrite that reports an input whose destination
\* exists, which the same call with dryrun=False skips
DryRunPlansAllWitness ==
    /\ call.op = "shuffle"
    /\ call.dryrun
    /\ ~call.overwrite
    /\ unreadable = {}
    /\ Len(call.inputs) = 2
    /\ call.inputs[1].destination \in call.before.dirs
    /\ AsResult(call.inputs[1]) \in Range(call.result)
    /\ LET real == shuffle(call.before, call.order, call.inputs, FALSE, FALSE)
       IN /\ real.err = "none"
          /\ real.steps[1].err = "FileExistsError"
          /\ AsResult(call.inputs[1]) \notin Range(real.copied)
          /\ Len(real.copied) = 1


\* ------------------------------------------ sources and destinations that
\* overlap: a destination that holds its source, one that lies in it, and
\* one that lies in the source of another input
SrcAAA == << <<"a">>, <<"a">>, <<"a">> >>

NestedSlots ==
    [f \in {<<SrcAA, <<"a", "a">> >>, <<SrcAAA, <<"a", "a">> >>,
            <<SrcAB, <<"a", "a">> >>} |->
        IF f[1] = SrcAA THEN 3 ELSE IF f[1] = SrcAAA THEN 6 ELSE 4]

InitNested ==
    /\ dirs \in {D \in SUBSET {SrcA, SrcAA, SrcAAA, SrcAB, DstB} :
                    {SrcA, SrcAA, SrcAB} \subseteq D /\ PrefixClosed(D)}
    /\ \E F \in SUBSET {f \in DOMAIN NestedSlots : f[1] \in dirs} :
          files = [f \in F |-> NestedSlots[f]]
    /\ unreadable = {}
    /\ nchanges = 0
    /\ cache = NoCache
    /\ call = NoCall
    /\ heap = EmptyHeap
    /\ held = {}
    /\ nops = 0

NestedPatterns == {QOnlyA, QTree}

NestedDefs ==
    {<<ShuffleInput(s, d, p)>> :
        s \in {SrcAA, SrcAB}, d \in {SrcA, SrcAB, SrcAAA, DstB},
        p \in NestedPatterns}
    \cup {<<ShuffleInput(SrcAA, d, p), ShuffleInput(SrcAB, DstB, p)>> :
            d \in {SrcAB, DstB}, p \in NestedPatterns}

ShuffleNested ==
    /\ call = NoCall
    /\ \E shuffle_def \in NestedDefs, overwrite \in BOOLEAN,
          dryrun \in BOOLEAN :
            Shuffled("shuffle",
                     shuffle(fsNow, "fwd", shuffle_def, overwrite, dryrun),
                     shuffle_def, overwrite, dryrun, "fwd")
    /\ UNCHANGED <<unreadable, nchanges, cache, objVars>>

\* shuffle_to into the root directory, the parent of "a", and into "b"
ShuffleToNested ==
    /\ call = NoCall
    /\ \E matches_ \in {<<ScanResult(SrcAA, p)>> : p \in NestedPatterns},
          destination \in {<<>>, DstB},
          overwrite \in BOOLEAN, dryrun \in BOOLEAN :
            Shuffled("shuffle_to",
                     shuffle_to(fsNow, "fwd", matches_, destination,
                                overwrite, dryrun),
                     [i \in 1..Len(matches_) |->
                         [source |-> matches_[i].source,
                          destination |->
                              Append(destination, Last(matches_[i].source)),
                          pattern |-> matches_[i].pattern,
                          root |-> destination]],
                     overwrite, dryrun, "fwd")
    /\ UNCHANGED <<unreadable, nchanges, cache, objVars>>

NextNested == ShuffleNested \/ ShuffleToNested
SpecNested == InitNested /\ [][NextNested]_vars

\* every source tree holds what it held before the call
SourcesKept ==
    \A i \in 1..Len(call.inputs) :
        Under(fsNow, call.inputs[i].source)
           = Under(call.before, call.inputs[i].source)

\* C29 (as claimed): when the destination of every input lies outside its
\* source, every source tree has the same directories, files and contents
\* after the call as before it
ShuffleCopies ==
    (/\ ShuffleCalled
     /\ \A i \in 1..Len(call.inputs) :
           ~IsPrefix(call.inputs[i].source, call.inputs[i].destination)) =>
        SourcesKept

\* neither path lies at or below the other
Apart(p, q) == ~IsPrefix(p, q) /\ ~IsPrefix(q, p)

\* C29 (amended): when no destination of the call lies in a source of the
\* call and no source lies in a destination, every source tree has the
\* same directories, files and contents after the call as before it
ShuffleCopiesApart ==
    (/\ ShuffleCalled
     /\ \A i, j \in 1..Len(call.inputs) :
           Apart(call.inputs[i].source, call.inputs[j].destination)) =>
        SourcesKept

\* a tree copied, with its subdirectory, to a destination apart from the
\* source
ShuffleCopiesWitness ==
    /\ call.op = "shuffle"
    /\ ~call.dryrun
    /\ call.err = "none"
    /\ Len(call.result) = 1
    /\ call.result[1].source = SrcAA
    /\ call.result[1].destination = DstB
    /\ call.result[1].pattern = QTree
    /\ <<DstBA, <<"a", "a">> >> \in DOMAIN files
    /\ files[<<DstBA, <<"a", "a">> >>] = 6
    /\ files[<<SrcAAA, <<"a", "a">> >>] = 6


\* ======================================================== Command line
\* a pattern file named on the command line: absent, not JSON, or the JSON
\* of a pattern
MissingFile == [kind |-> "missing"]
InvalidFile == [kind |-> "invalid"]
PatternFile(pattern) == [kind |-> "json", pattern |-> pattern]

\* FileStructurePattern.load_json(path): read_text, then json.loads
load_json(json_path) ==
    IF json_path.kind = "missing"
    THEN [err |-> "FileNotFoundError", pattern |-> None]
    ELSE IF json_path.kind = "invalid"
    THEN [err |-> "JSONDecodeError", pattern |-> None]
    ELSE [err |-> "none", pattern |-> json_path.pattern]

\* list(patterns) over the generator of load_json calls, from path i
RECURSIVE LoadPatterns(_, _, _)
PatternLoaded(l, pattern_spec_paths, i, loaded) ==
    IF l.err # "none" THEN [err |-> l.err, patterns |-> loaded]
    ELSE LoadPatterns(pattern_spec_paths, i + 1, Append(loaded, l.pattern))
LoadPatterns(pattern_spec_paths, i, loaded) ==
    IF i > Len(pattern_spec_paths)
    THEN [err |-> "none", patterns |-> loaded]
    ELSE PatternLoaded(load_json(pattern_spec_paths[i]), pattern_spec_paths,
                       i, loaded)

\* scan(source, patterns) of a command: the patterns are loaded when scan
\* consumes the generator, then the tree is walked in a process that has
\* listed nothing yet
CliScanLoaded(l, fs, source) ==
    IF l.err # "none" THEN [err |-> l.err, matches |-> <<>>]
    ELSE [err |-> scan(fs, NoCache, "UPath", source, l.patterns).err,
          matches |-> scan(fs, NoCache, "UPath", source, l.patterns).matches]

\* the lines printed for the matches
MatchLines(matches_) == [i \in 1..Len(matches_) |-> matches_[i].source]

\* a command ends with code 0 when it returns and with 1 when an
\* exception leaves it
Exited(err, stdout, fs) ==
    [exit |-> IF err = "none" THEN 0 ELSE 1, err |-> err, stdout |-> stdout,
     fs |-> fs]

cli_scan_done(s, fs) ==
    Exited(s.err, IF s.err = "none" THEN MatchLines(s.matches) ELSE <<>>, fs)

cli_scan(fs, source, pattern_spec_paths) ==
    cli_scan_done(CliScanLoaded(LoadPatterns(pattern_spec_paths, 1, <<>>),
                                fs, source), fs)

\* the lines printed for the results, and the count
ResultLines(results) ==
    [i \in 1..Len(results) |-> <<results[i].source, results[i].destination>>]
    \o << <<"Copied", Len(results)>> >>

cli_shuffled(r, header) ==
    Exited(r.err,
           IF r.err = "none" THEN header \o ResultLines(r.copied) ELSE header,
           r.fs)

\* the matches are a set: the loop over them takes them in some order
cli_shuffle_scanned(s, fs, order, matches_, destination, overwrite, dryrun) ==
    IF s.err # "none" THEN Exited(s.err, <<>>, fs)
    ELSE cli_shuffled(shuffle_to(fs, order, matches_, destination, overwrite,
                                 dryrun),
                      <<"This operation will copy">> \o MatchLines(matches_))

cli_shuffle(fs, order, match_order, source, destination, pattern_spec_paths, overwrite, dryrun) ==
    LET s == CliScanLoaded(LoadPatterns(pattern_spec_paths, 1, <<>>), fs,
                           source)
    IN cli_shuffle_scanned(s, fs, order,
           IF match_order = "rev" THEN Reverse(s.matches) ELSE s.matches,
           destination, overwrite, dryrun)

\* an optional subdirectory holding "?a", nothing required
QOptSub == WithDirectory(FileStructureRequirement, QOnlyA, FALSE)
CliPatterns == {QOnlyA, QTree, QOptSub}
CliFiles == {MissingFile, InvalidFile} \cup {PatternFile(p) : p \in CliPatterns}
CliPathLists ==
    {<<f>> : f \in CliFiles}
    \cup {<<PatternFile(QOnlyA), f>> : f \in CliFiles \ {PatternFile(QOnlyA)}}

CliScan ==
    /\ call = NoCall
    /\ \E source \in {SrcA, SrcAB}, pattern_spec_paths \in CliPathLists :
          call' = [op |-> "cli_scan", source |-> source,
                   paths |-> pattern_spec_paths, before |-> fsNow,
                   out |-> cli_scan(fsNow, source, pattern_spec_paths)]
    /\ UNCHANGED <<fsVars, cache, objVars>>

CliShuffle ==
    /\ call = NoCall
    /\ \E source \in {SrcA, SrcAB}, pattern_spec_paths \in CliPathLists,
          overwrite \in BOOLEAN, dryrun \in BOOLEAN, match_order \in Orders :
          LET out == cli_shuffle(fsNow, "fwd", match_order, source, DstB,
                                 pattern_spec_paths, overwrite, dryrun)
          IN /\ call' = [op |-> "cli_shuffle", source |-> source,
                         paths |-> pattern_spec_paths, before |-> fsNow,
                         overwrite |-> overwrite, dryrun |-> dryrun,
                         out |-> out]
             /\ dirs' = out.fs.dirs
             /\ files' = out.fs.files
    /\ UNCHANGED <<unreadable, nchanges, cache, objVars>>

NextCli == CliScan \/ CliShuffle
SpecCli == InitShuffle /\ [][NextCli]_vars

CliExited == call.op \in {"cli_scan", "cli_shuffle"}

\* C23 (as claimed): scan and shuffle exit with a non-zero code when a
\* pattern file is missing or is not valid JSON and with code zero in every
\* other case, and a shuffle that exits with zero ends its output with the
\* count of the directories copied
CliExitCodes ==
    CliExited =>
        /\ call.out.exit # 0 <=>
              \E i \in 1..Len(call.paths) : call.paths[i].kind # "json"
        /\ (call.op = "cli_shuffle" /\ call.out.exit = 0) =>
              /\ call.out.stdout # <<>>
              /\ Last(call.out.stdout)[1] = "Copied"


\* ============================================================ Termination
\* matches and copy as the recursive procedures they are: call.stack holds
\* one frame per call in progress, the last frame being the one that runs,
\* and every step executes one test, one loop iteration or one call.
MatchFrame(self, walk_args) ==
    [fn |-> "matches", self |-> self, walk_args |-> walk_args,
     entered |-> FALSE, waiting |-> FALSE, k |-> 1, i |-> 1]

CopyFrame(self, source, destination) ==
    [fn |-> "copy", self |-> self, source |-> source,
     destination |-> destination, phase |-> "mkdir", filenames |-> <<>>,
     dirnames |-> <<>>, k |-> 1, i |-> 1]

Top == Last(call.stack)

\* the frame that runs is replaced by frame
Continue(frame) == [call EXCEPT !.stack = Append(Front(@), frame)]

\* the frame that runs becomes frame and calls: callee runs next
Call(frame, callee) ==
    [call EXCEPT !.stack = Append(Append(Front(@), frame), callee),
                 !.depth = IF Len(call.stack) + 1 > @
                           THEN Len(call.stack) + 1 ELSE @]

\* the frame that runs returns value to its caller
Return(value) == [call EXCEPT !.stack = Front(@), !.ret = value]

\* an exception nobody catches unwinds every frame
Raise(err) == [call EXCEPT !.stack = <<>>, !.err = err]

\* the loop stays on the branch it has just tried
BranchRetried(frame) == frame

\* the inner loop of copy moves on to the next branch
BranchTried(frame) == [frame EXCEPT !.k = @ + 1]

\* next((dirpath / directory).walk()) gave w for subdirectory i: the
\* callee is branch k on that triple
MatchDescends(frame, w) ==
    IF w.err # "none" THEN Raise("StopIteration")
    ELSE Call([frame EXCEPT !.waiting = TRUE],
              MatchFrame(frame.self.directories[frame.k], w.triple))

\* one step of the frame of matches that runs
MatchRuns(frame) ==
    IF ~frame.entered
    THEN IF \/ /\ frame.self.directory_name # None
               /\ frame.self.directory_name # <<>>
               /\ ~PathMatch(frame.walk_args.path, frame.self.directory_name)
            \/ ~RequiredFilesPresent(frame.self, frame.walk_args.filenames)
         THEN Return("F")
         ELSE Continue([frame EXCEPT !.entered = TRUE])
    ELSE IF frame.waiting
    THEN Continue(IF call.ret = "T"
                  THEN [frame EXCEPT !.waiting = FALSE, !.k = @ + 1, !.i = 1]
                  ELSE [frame EXCEPT !.waiting = FALSE, !.i = @ + 1])
    ELSE IF frame.k > Len(frame.self.directories) THEN Return("T")
    ELSE IF frame.i > Len(frame.walk_args.dirnames) THEN Return("F")
    ELSE MatchDescends(frame,
             NextWalk(fsNow, Append(frame.walk_args.path,
                                    frame.walk_args.dirnames[frame.i])))

\* the first source.iterdir() of copy gave e
CopyListing(frame, e) ==
    IF e.err # "none" THEN Raise(e.err)
    ELSE Continue([frame EXCEPT !.phase = "files",
                                !.filenames = e.triple.filenames])

\* branch.matches(next(directory.walk())) answered m for subdirectory i
\* and branch k
CopyBranchChecked(frame, m) ==
    IF m = "E" THEN Raise("RuntimeError")
    ELSE IF m = "T"
    THEN Call(BranchTried(frame),
              CopyFrame(all_directories(frame.self, "fwd")[frame.k],
                        Append(frame.source, frame.dirnames[frame.i]),
                        Append(frame.destination, frame.dirnames[frame.i])))
    ELSE Continue(BranchTried(frame))

CopyBranchWalked(frame, w) ==
    IF w.err # "none" THEN Raise("StopIteration")
    ELSE CopyBranchChecked(frame,
             matches(all_directories(frame.self, "fwd")[frame.k], fsNow,
                     w.triple))

\* one step of the frame of copy that runs; made is what the step wrote
CopyRuns(frame, made) ==
    IF frame.phase = "mkdir"
    THEN IF made.err # "none" THEN Raise(made.err)
         ELSE CopyListing(frame, Enumerate(made.fs, frame.source))
    ELSE IF frame.phase = "files"
    THEN IF frame.i > Len(frame.filenames)
         THEN Continue([frame EXCEPT
                           !.phase = "dirs", !.i = 1, !.k = 1,
                           !.dirnames =
                               Enumerate(fsNow, frame.source).triple.dirnames])
         ELSE Continue([frame EXCEPT !.i = @ + 1])
    ELSE IF frame.i > Len(frame.dirnames) THEN Return("none")
    ELSE IF frame.k > Len(all_directories(frame.self, "fwd"))
    THEN Continue([frame EXCEPT !.i = @ + 1, !.k = 1])
    ELSE CopyBranchWalked(frame,
             NextWalk(fsNow, Append(frame.source, frame.dirnames[frame.i])))

\* what the step of the frame of copy that runs writes
CopyWrites(frame) ==
    IF call.dryrun THEN Ok(fsNow)
    ELSE IF frame.phase = "mkdir"
    THEN mkdir(fsNow, frame.destination, call.overwrite)
    ELSE IF /\ frame.phase = "files"
            /\ frame.i <= Len(frame.filenames)
            /\ \E pattern \in all_files(frame.self) :
                  PathMatch(Append(frame.source, frame.filenames[frame.i]),
                            pattern)
    THEN Ok(copy2(fsNow, <<frame.source, frame.filenames[frame.i]>>,
                  <<frame.destination, frame.filenames[frame.i]>>))
    ELSE Ok(fsNow)

SrcAAB == << <<"a">>, <<"a">>, <<"b">> >>
\* two levels of sub-patterns, nothing required of them
QDeep ==
    WithDirectory(FileStructureRequirement,
                  WithDirectory(FileStructureRequirement,
                                FileStructureRequirement, FALSE),
                  FALSE)
\* a required subdirectory that has a subdirectory
QDeepRequired ==
    WithDirectory(FileStructureRequirement,
                  WithDirectory(FileStructureRequirement,
                                FileStructureRequirement, TRUE),
                  TRUE)
TermPatterns == {QOnlyA, QTree, QDeep, QDeepRequired}

InitTerm ==
    /\ dirs \in {D \in SUBSET {SrcA, SrcAA, SrcAAA, SrcAB} :
                    SrcA \in D /\ PrefixClosed(D)}
    /\ \E F \in SUBSET {f \in DOMAIN NestedSlots : f[1] \in dirs} :
          files = [f \in F |-> NestedSlots[f]]
    /\ unreadable \in {{}} \cup {{d} : d \in dirs \cap {SrcAA}}
    /\ nchanges = 0
    /\ cache = NoCache
    /\ call = NoCall
    /\ heap = EmptyHeap
    /\ held = {}
    /\ nops = 0

MatchStart ==
    /\ call = NoCall
    /\ \E self \in TermPatterns, path \in dirs :
          /\ Enumerate(fsNow, path).err = "none"
          /\ call' = [op |-> "matches", self |-> self, source |-> path,
                      destination |-> path, overwrite |-> FALSE,
                      dryrun |-> TRUE, before |-> fsNow,
                      stack |-> <<MatchFrame(self,
                                     Enumerate(fsNow, path).triple)>>,
                      ret |-> "none", err |-> "none", depth |-> 1]
    /\ UNCHANGED <<fsVars, cache, objVars>>

MatchStep ==
    /\ call.op = "matches"
    /\ call.stack # <<>>
    /\ call' = MatchRuns(Top)
    /\ UNCHANGED <<fsVars, cache, objVars>>

CopyStart ==
    /\ call = NoCall
    /\ \E self \in TermPatterns, source \in {SrcA, SrcAA},
          destination \in {DstB, SrcAB, SrcAAB},
          overwrite \in BOOLEAN, dryrun \in BOOLEAN :
          call' = [op |-> "copy", self |-> self, source |-> source,
                   destination |-> destination, overwrite |-> overwrite,
                   dryrun |-> dryrun, before |-> fsNow,
                   stack |-> <<CopyFrame(self, source, destination)>>,
                   ret |-> "none", err |-> "none", depth |-> 1]
    /\ UNCHANGED <<fsVars, cache, objVars>>

CopyStep ==
    /\ call.op = "copy"
    /\ call.stack # <<>>
    /\ call' = CopyRuns(Top, CopyWrites(Top))
    /\ dirs' = CopyWrites(Top).fs.dirs
    /\ files' = CopyWrites(Top).fs.files
    /\ UNCHANGED <<unreadable, nchanges, cache, objVars>>

NextTerm == MatchStart \/ MatchStep \/ CopyStart \/ CopyStep
SpecTerm == InitTerm /\ [][NextTerm]_vars
\* a call that has begun keeps running until it returns or raises
SpecTermFair == SpecTerm /\ WF_vars(MatchStep) /\ WF_vars(CopyStep)

Running == call.op \in {"matches", "copy"} /\ call.stack # <<>>
Ended == call.op \in {"matches", "copy"} /\ call.stack = <<>>

\* C26: every call of matches and every call of copy, on any pattern tree
\* and any directory tree, the destination inside the source included,
\* comes to its end
Termination == Running ~> Ended

\* a copy into a subdirectory of its own source that went three calls deep
\* and returned
TerminationWitness ==
    /\ Ended
    /\ call.op = "copy"
    /\ ~call.dryrun
    /\ call.err = "none"
    /\ IsPrefix(call.source, call.destination)
    /\ call.depth = 3

====
